---- MODULE Spec2Model ----
(***************************************************************************)
(* Model of the social-media post generator: the backend                   *)
(* (backend-ts/src/server.ts, generate.ts, openai.ts, webResearch.ts),     *)
(* validateProduct called on its own, and the page component of the        *)
(* frontend with its event handlers.                                       *)
(*                                                                         *)
(* One POST /api/generate request is followed from the moment Express      *)
(* calls the handler to the moment the response is written.  The handler   *)
(* is an async function: the code between two awaits runs atomically, so   *)
(* each action below is one such run-to-suspension block.  JavaScript      *)
(* values are records tagged with their typeof; strings are TLA+ strings   *)
(* so that trim(), length and includes() are computed on the characters.   *)
(***************************************************************************)
EXTENDS Integers, Sequences, FiniteSets, TLC

VARIABLES
    apiKeySet,       \* process.env.OPENAI_API_KEY is a non-empty string
    genClient,       \* openai.ts: let client (NoClient or a handle)
    researchClient,  \* webResearch.ts: let client (NoClient or a handle)
    pc,              \* where the handler of the current request is suspended
    body,            \* req.body of the current request
    selectedTone,    \* server.ts: const selectedTone
    selectedPlatforms, \* server.ts: const selectedPlatforms
    webResearch,     \* server.ts: let webResearch (Undefined or a digest)
    researchReply,   \* what the external research call did (history)
    researchPromise, \* state of the promise performWebResearch returned (history)
    genReply,        \* what the external generation call did (history)
    genArgs,         \* the call of generateSocialMediaPosts: its arguments (history)
    calls,           \* the calls started for this request, in order (history)
    responses,       \* the res.json() bodies written for this request, in order
    warned,          \* the console.warn messages of this request, in order
    genBuilt,        \* how many clients openai.ts has constructed (history)
    researchBuilt,   \* how many clients webResearch.ts has constructed (history)
    requests,        \* number of requests received so far
    handles,         \* the clients this request's external calls went to (history)
    parked,          \* the other request's handler, suspended at an await or idle
    arg,             \* the argument of a function called on its own
    ret,             \* what that call returned (NotCalled before it)
    pageProduct,     \* page component: const [product, setProduct]
    pageTone,        \* page component: const [tone, setTone]
    pagePlatforms,   \* page component: const [selectedPlatforms, setSelectedPlatforms]
    pageValidationErrors, \* page component: const [validationErrors, ...]
    pagePosts,       \* page component: const [posts, setPosts]
    pageIsLoading,   \* page component: const [isLoading, setIsLoading]
    pageError,       \* page component: const [error, setError]
    pageInFlight,    \* promises of generatePosts the page is waiting for
    pageEvent        \* the event the page handled last (history)

vars == <<apiKeySet, genClient, researchClient, pc, body, selectedTone,
          selectedPlatforms, webResearch, researchReply, researchPromise,
          genReply, genArgs, calls,
          responses, warned, genBuilt, researchBuilt, requests, handles, parked,
          arg, ret,
          pageProduct, pageTone, pagePlatforms, pageValidationErrors, pagePosts,
          pageIsLoading, pageError, pageInFlight, pageEvent>>

\* the variables of the service, which neither a direct call nor the page touches
serviceVars == <<apiKeySet, genClient, researchClient, pc, body, selectedTone,
                 selectedPlatforms, webResearch, researchReply, researchPromise,
                 genReply, genArgs, calls, responses, warned, genBuilt,
                 researchBuilt, requests, handles, parked>>

\* the state of the page component, which the backend never touches
pageVars == <<pageProduct, pageTone, pagePlatforms, pageValidationErrors, pagePosts,
              pageIsLoading, pageError, pageInFlight, pageEvent>>

-----------------------------------------------------------------------------
(* Bounds of the model *)

\* requests the process serves one after the other
MaxRequests == 2
\* longest posts array the model's reply carries
MaxPosts == 2

-----------------------------------------------------------------------------
(* JavaScript values *)

Undefined == [t |-> "undefined"]
Null      == [t |-> "null"]
Str(x)    == [t |-> "string", s |-> x]
Num(x)    == [t |-> "number", nan |-> FALSE, n |-> x]
NaN       == [t |-> "number", nan |-> TRUE, n |-> 0]
Bool(x)   == [t |-> "boolean", b |-> x]
Arr(x)    == [t |-> "array", a |-> x]
Obj(x)    == [t |-> "object", o |-> x]

\* typeof v
TypeOf(v) == IF v.t \in {"null", "array"} THEN "object" ELSE v.t

\* ToBoolean(v): what `!v`, `v && ...`, `v || ...` and `if (v)` test
Truthy(v) ==
    CASE v.t = "undefined" -> FALSE
      [] v.t = "null"      -> FALSE
      [] v.t = "string"    -> v.s # ""
      [] v.t = "number"    -> ~v.nan /\ v.n # 0
      [] v.t = "boolean"   -> v.b
      [] OTHER             -> TRUE

\* v.key for a non-null v: the field of an object, undefined when the key is
\* absent or v carries no such own property (arrays and primitives of the model)
Prop(v, key) ==
    IF v.t = "object" /\ key \in DOMAIN v.o THEN v.o[key] ELSE Undefined

-----------------------------------------------------------------------------
(* Strings *)

\* String.prototype.includes
Includes(s, sub) ==
    \E i \in 1..(Len(s) - Len(sub) + 1) : SubSeq(s, i, i + Len(sub) - 1) = sub

\* white space as String.prototype.trim sees it (the characters the model uses)
IsSpace(c) == c \in {" ", "\n", "\t"}

\* String.prototype.trim
Trim(s) ==
    LET idx   == {i \in 1..Len(s) : ~IsSpace(SubSeq(s, i, i))}
        first == CHOOSE i \in idx : \A j \in 1..(i - 1) : IsSpace(SubSeq(s, j, j))
        last  == CHOOSE i \in idx : \A j \in (i + 1)..Len(s) : IsSpace(SubSeq(s, j, j))
    IN  IF idx = {} THEN "" ELSE SubSeq(s, first, last)

\* a string of n copies of the one-character string c
RECURSIVE Repeat(_, _)
Repeat(c, n) ==
    IF n = 0 THEN ""
    ELSE IF n = 1 THEN c
    ELSE LET h == Repeat(c, n \div 2)
         IN  IF n % 2 = 0 THEN h \o h ELSE h \o h \o c

-----------------------------------------------------------------------------
(* server.ts: validation helpers *)

NameMaxLength        == 200
DescriptionMaxLength == 5000
PriceMax             == 1000000000
CategoryMaxLength    == 100

\* the name check with its limit off by one: a name of 200 characters fails
NameErrors_AtLimit(p) ==
    LET v == Prop(p, "name")
    IN  IF ~Truthy(v) \/ TypeOf(v) # "string" \/ Len(Trim(v.s)) = 0
        THEN <<"Product name is required">>
        ELSE IF Len(v.s) >= NameMaxLength
        THEN <<"Product name must be less than 200 characters">>
        ELSE <<>>

\* the message validateProduct pushes for p.name, <<>> when it pushes none
NameErrors(p) ==
    LET v == Prop(p, "name")
    IN  IF ~Truthy(v) \/ TypeOf(v) # "string" \/ Len(Trim(v.s)) = 0
        THEN <<"Product name is required">>
        ELSE IF Len(v.s) > NameMaxLength
        THEN <<"Product name must be less than 200 characters">>
        ELSE <<>>

DescriptionErrors(p) ==
    LET v == Prop(p, "description")
    IN  IF ~Truthy(v) \/ TypeOf(v) # "string" \/ Len(Trim(v.s)) = 0
        THEN <<"Product description is required">>
        ELSE IF Len(v.s) > DescriptionMaxLength
        THEN <<"Product description must be less than 5000 characters">>
        ELSE <<>>

PriceErrors(p) ==
    LET v == Prop(p, "price")
    IN  IF v = Undefined \/ v = Null
        THEN <<"Product price is required">>
        ELSE IF TypeOf(v) # "number" \/ v.nan
        THEN <<"Product price must be a valid number">>
        ELSE IF v.n < 0
        THEN <<"Product price cannot be negative">>
        ELSE IF v.n > PriceMax
        THEN <<"Product price seems unrealistic">>
        ELSE <<>>

CategoryErrors(p) ==
    LET v == Prop(p, "category")
    IN  IF v # Undefined /\ v # Null /\ v # Str("")
        THEN IF TypeOf(v) # "string"
             THEN <<"Product category must be a string">>
             ELSE IF Len(v.s) > CategoryMaxLength
             THEN <<"Product category must be less than 100 characters">>
             ELSE <<>>
        ELSE <<>>

\* a validator that returns as soon as one field has failed
validateProduct_FirstError(product) ==
    IF ~Truthy(product) \/ TypeOf(product) # "object"
    THEN [valid |-> FALSE, errors |-> <<"Product data is required">>]
    ELSE LET errors == NameErrors(product) \o DescriptionErrors(product)
                       \o PriceErrors(product) \o CategoryErrors(product)
         IN  [valid |-> Len(errors) = 0,
              errors |-> SubSeq(errors, 1, IF Len(errors) = 0 THEN 0 ELSE 1)]

\* function validateProduct(product): { valid, errors }
validateProduct(product) ==
    IF ~Truthy(product) \/ TypeOf(product) # "object"
    THEN [valid |-> FALSE, errors |-> <<"Product data is required">>]
    ELSE LET errors == NameErrors(product) \o DescriptionErrors(product)
                       \o PriceErrors(product) \o CategoryErrors(product)
         IN  [valid |-> Len(errors) = 0, errors |-> errors]

validTones == <<"professional", "casual", "humorous", "inspirational", "urgent">>

\* function validateTone(tone): tone is Tone
validateTone(tone) ==
    TypeOf(tone) = "string" /\ \E i \in 1..Len(validTones) : validTones[i] = tone.s

\* a tone selection that lets any non-empty string through
SelectTone_AnyString(tone) ==
    IF Truthy(tone) /\ TypeOf(tone) = "string" THEN tone.s ELSE "professional"

\* const selectedTone = tone && validateTone(tone) ? tone : "professional"
SelectTone(tone) ==
    IF Truthy(tone) /\ validateTone(tone) THEN tone.s ELSE "professional"

validPlatforms == <<"twitter", "instagram", "linkedin">>

IsValidPlatform(v) ==
    v.t = "string" /\ \E i \in 1..Len(validPlatforms) : validPlatforms[i] = v.s

\* a selection in which an array without any recognized name also falls back
\* to the full set
SelectPlatforms_DefaultsWhenEmpty(platforms) ==
    IF platforms.t \in {"undefined", "null"}
    THEN [threw |-> FALSE, list |-> validPlatforms]
    ELSE IF platforms.t = "array"
    THEN [threw |-> FALSE,
          list  |-> LET kept == SelectSeq(platforms.a, IsValidPlatform)
                    IN  IF Len(kept) = 0 THEN validPlatforms
                        ELSE [i \in 1..Len(kept) |-> kept[i].s]]
    ELSE [threw |-> TRUE, list |-> <<>>]

\* const selectedPlatforms = platforms?.filter(p => validPlatforms.includes(p))
\*                           || [...validPlatforms]
\* threw: platforms is neither null/undefined nor an array, so that
\* platforms?.filter is not a function and the call raises a TypeError
SelectPlatforms(platforms) ==
    IF platforms.t \in {"undefined", "null"}
    THEN [threw |-> FALSE, list |-> validPlatforms]
    ELSE IF platforms.t = "array"
    THEN [threw |-> FALSE,
          list  |-> LET kept == SelectSeq(platforms.a, IsValidPlatform)
                    IN  [i \in 1..Len(kept) |-> kept[i].s]]
    ELSE [threw |-> TRUE, list |-> <<>>]

-----------------------------------------------------------------------------
(* Errors and results of calls that may throw *)

\* an Error object: its class, its status (0: none) and its message;
\* APIError is a subclass of Error, so is TypeError
Err(cls, status, message) == [cls |-> cls, status |-> status, message |-> message]
NoError == Err("none", 0, "")
TypeErrorOf(what) == Err("TypeError", 0, what)

Throw(e)  == [threw |-> TRUE, err |-> e, value |-> <<>>]
Return(v) == [threw |-> FALSE, err |-> NoError, value |-> v]

-----------------------------------------------------------------------------
(* openai.ts and webResearch.ts: the lazily created client *)

NoClient == [t |-> "null"]
\* the id-th object built by `new OpenAI(...)` in one module
NewClient(id) == [t |-> "client", id |-> id]

\* getClient without the `if (!client)` test: every call builds a client
getClient_Rebuilds(client, keySet, built) ==
    IF ~keySet
    THEN [threw |-> TRUE, client |-> client, built |-> built,
          err |-> Err("Error", 0, "OPENAI_API_KEY environment variable is not set")]
    ELSE [threw |-> FALSE, client |-> NewClient(built + 1), built |-> built + 1,
          err |-> NoError]

\* function getClient(): OpenAI (the same code in both modules);
\* client: the module's `client`, built: how many the module has built so far
getClient(client, keySet, built) ==
    IF client = NoClient
    THEN IF ~keySet
         THEN [threw |-> TRUE, client |-> client, built |-> built,
               err |-> Err("Error", 0, "OPENAI_API_KEY environment variable is not set")]
         ELSE [threw |-> FALSE, client |-> NewClient(built + 1), built |-> built + 1,
               err |-> NoError]
    ELSE [threw |-> FALSE, client |-> client, built |-> built, err |-> NoError]

-----------------------------------------------------------------------------
(* openai.ts: callOpenAI after the awaited chat.completions.create() *)

\* the filter callback of callOpenAI (openai.ts validates each post)
IsValidPost(post) ==
    /\ Truthy(post)
    /\ TypeOf(post) = "object"
    /\ TypeOf(Prop(post, "platform")) = "string"
    /\ IsValidPlatform(Prop(post, "platform"))
    /\ TypeOf(Prop(post, "content")) = "string"
    /\ Len(Trim(Prop(post, "content").s)) > 0

\* a try block that substitutes an empty list for output it cannot parse
ParseCompletion_Repairs(content) ==
    IF content.k \in {"nochoices", "none", "text"} THEN Return(<<>>)
    ELSE LET posts == Prop(content.v, "posts")
         IN  IF ~Truthy(posts) \/ posts.t # "array" THEN Return(<<>>)
             ELSE Return(SelectSeq(posts.a, IsValidPost))

\* The body of the try block once create() has resolved.  The completion's
\* content is given by what the code can observe of it:
\*   "nochoices": response.choices is undefined (reading [0] raises TypeError)
\*   "none":  choices[0]?.message?.content is undefined, null or ""
\*   "text":  a non-empty string that JSON.parse rejects
\*   "json":  a non-empty string that JSON.parse accepts, v the value it yields
ParseCompletion(content) ==
    IF content.k = "nochoices"
    THEN Throw(TypeErrorOf("Cannot read properties of undefined (reading '0')"))
    ELSE IF content.k = "none"
    THEN Throw(Err("Error", 0, "No content received from AI"))
    ELSE IF content.k = "text"
    THEN Throw(Err("Error", 0, "Invalid response format from AI"))
    ELSE LET parsed == content.v
         IN  IF parsed = Null
             THEN Throw(TypeErrorOf("Cannot read properties of null (reading 'posts')"))
             ELSE LET posts == Prop(parsed, "posts")
                  IN  IF ~Truthy(posts) \/ posts.t # "array"
                      THEN Throw(Err("Error", 0, "Invalid posts structure in AI response"))
                      ELSE Return(SelectSeq(posts.a, IsValidPost))

\* the catch block of callOpenAI: what it throws for the error it caught
CatchProviderError(error) ==
    IF error.cls = "APIError" /\ error.status = 401
    THEN Err("Error", 0, "Invalid API key. Please check your OpenAI API key configuration.")
    ELSE IF error.cls = "APIError" /\ error.status = 429
    THEN Err("Error", 0, "Rate limit exceeded. Please try again later.")
    ELSE IF error.cls = "APIError" /\ error.status = 500
    THEN Err("Error", 0, "OpenAI service is temporarily unavailable. Please try again.")
    ELSE error

\* callOpenAI from the point where create() settles with `reply`
\* (k = "reject": it rejected with reply.err; k = "resolve": reply.content)
callOpenAI(reply) ==
    LET tried == IF reply.k = "reject" THEN Throw(reply.err)
                 ELSE ParseCompletion(reply.content)
    IN  IF tried.threw THEN Throw(CatchProviderError(tried.err)) ELSE tried

-----------------------------------------------------------------------------
(* generate.ts: generateSocialMediaPosts after the awaited callOpenAI() *)

InSeq(x, seq) == \E i \in 1..Len(seq) : seq[i] = x

\* the filter without its platform test
FilterPosts_ContentOnly(posts, platforms) ==
    LET Keep(post) == Len(Trim(Prop(post, "content").s)) > 0
    IN  SelectSeq(posts, Keep)

\* the posts of a list without any post whose platform an earlier one has
RECURSIVE FirstPerPlatform(_)
FirstPerPlatform(posts) ==
    IF posts = <<>> THEN <<>>
    ELSE LET front == FirstPerPlatform(SubSeq(posts, 1, Len(posts) - 1))
             last  == posts[Len(posts)]
         IN  IF \E i \in 1..Len(front) :
                    Prop(front[i], "platform") = Prop(last, "platform")
             THEN front ELSE Append(front, last)

\* a filter that also keeps only the first post of each platform
FilterPosts_FirstPerPlatform(posts, platforms) ==
    LET Keep(post) == /\ InSeq(Prop(post, "platform").s, platforms)
                      /\ Len(Trim(Prop(post, "content").s)) > 0
    IN  FirstPerPlatform(SelectSeq(posts, Keep))

\* const validPosts = posts.filter(post => platforms.includes(post.platform)
\*                                         && post.content.trim().length > 0)
FilterPosts(posts, platforms) ==
    LET Keep(post) == /\ InSeq(Prop(post, "platform").s, platforms)
                      /\ Len(Trim(Prop(post, "content").s)) > 0
    IN  SelectSeq(posts, Keep)

\* the platforms named in the console.warn of generateSocialMediaPosts
MissingPlatforms(validPosts, platforms) ==
    LET Missing(p) == ~\E i \in 1..Len(validPosts) :
                          Prop(validPosts[i], "platform").s = p
    IN  SelectSeq(platforms, Missing)

\* array.join(", ")
RECURSIVE Join(_)
Join(seq) ==
    IF Len(seq) = 0 THEN ""
    ELSE IF Len(seq) = 1 THEN seq[1]
    ELSE seq[1] \o ", " \o Join(Tail(seq))

\* the console.warn of generateSocialMediaPosts: <<>> when it logs nothing
MissingWarning(validPosts, platforms) ==
    LET missingPlatforms == MissingPlatforms(validPosts, platforms)
    IN  IF Len(missingPlatforms) > 0
        THEN <<"Missing posts for platforms: " \o Join(missingPlatforms)>>
        ELSE <<>>

\* a generation step that treats a platform without a post as a failure
generateSocialMediaPosts_Strict(reply, platforms) ==
    LET called == callOpenAI(reply)
    IN  IF called.threw THEN called
        ELSE IF Len(MissingPlatforms(FilterPosts(called.value, platforms), platforms)) > 0
        THEN Throw(Err("Error", 0, "Missing posts for platforms"))
        ELSE Return(FilterPosts(called.value, platforms))

\* generateSocialMediaPosts from the point where callOpenAI settles
generateSocialMediaPosts(reply, platforms) ==
    LET called == callOpenAI(reply)
    IN  IF called.threw THEN called
        ELSE Return(FilterPosts(called.value, platforms))

-----------------------------------------------------------------------------
(* server.ts: the responses of POST /api/generate *)

Response(status, json) == [status |-> status, body |-> json]

ValidationFailed(details) ==
    Response(400, [error |-> "Validation failed", details |-> details])

\* !!webResearch: an object is truthy, undefined is not
WebResearchUsed(research) == research # Undefined

\* res.json({ posts, generated_at, count, tone, platforms, webResearchUsed,
\*            webResearch }); the clock reading is not modelled
SuccessEnvelope(posts, tone, platforms, research) ==
    Response(200, [posts           |-> posts,
                   generated_at    |-> "new Date().toISOString()",
                   count           |-> Len(posts),
                   tone            |-> tone,
                   platforms       |-> platforms,
                   webResearchUsed |-> WebResearchUsed(research),
                   webResearch     |-> IF research # Undefined THEN research ELSE Null])

ConfigurationError ==
    Response(500, [error   |-> "API configuration error",
                   message |-> "The server is not properly configured. Please contact support."])

RateLimitError ==
    Response(429, [error   |-> "Rate limit exceeded",
                   message |-> "Too many requests. Please try again in a few moments."])

GenerationFailed ==
    Response(500, [error   |-> "Failed to generate posts",
                   message |-> "An unexpected error occurred. Please try again."])

\* the catch block without the `return` after each specific answer
CatchResponses_NoReturn(error) ==
    (IF Includes(error.message, "API key") THEN <<ConfigurationError>> ELSE <<>>)
    \o (IF Includes(error.message, "rate limit") THEN <<RateLimitError>> ELSE <<>>)
    \o <<GenerationFailed>>

\* the catch block forwarding the caught message to the caller
CatchResponses_ForwardsMessage(error) ==
    IF Includes(error.message, "API key")
    THEN <<Response(500, [error |-> "API configuration error", message |-> error.message])>>
    ELSE IF Includes(error.message, "rate limit") THEN <<RateLimitError>>
    ELSE <<GenerationFailed>>

\* the catch block of the handler: the responses it writes, in order, for
\* the error it caught (every thrown value of the model is an Error)
CatchResponses(error) ==
    IF Includes(error.message, "API key") THEN <<ConfigurationError>>
    ELSE IF Includes(error.message, "rate limit") THEN <<RateLimitError>>
    ELSE <<GenerationFailed>>

-----------------------------------------------------------------------------
(* webResearch.ts: parseResearchResponse *)

HashtagLimit     == 10
TopicLimit       == 5
TopicMaxLength   == 100
InsightsLength   == 500
CompetitorLimit  == 5

LowerAlpha == "abcdefghijklmnopqrstuvwxyz"
UpperAlpha == "ABCDEFGHIJKLMNOPQRSTUVWXYZ"
Digits     == "0123456789"

Ch(s, i) == SubSeq(s, i, i)

IsDigit(c) == \E i \in 1..Len(Digits) : Ch(Digits, i) = c

\* \w of a regular expression: [A-Za-z0-9_]
IsWordChar(c) ==
    \/ \E i \in 1..Len(LowerAlpha) : Ch(LowerAlpha, i) = c \/ Ch(UpperAlpha, i) = c
    \/ IsDigit(c)
    \/ c = "_"

ToLowerChar(c) ==
    IF \E i \in 1..Len(UpperAlpha) : Ch(UpperAlpha, i) = c
    THEN Ch(LowerAlpha, CHOOSE i \in 1..Len(UpperAlpha) : Ch(UpperAlpha, i) = c)
    ELSE c

\* the text as the i flag of a regular expression compares it
RECURSIVE ToLower(_)
ToLower(s) ==
    IF Len(s) = 0 THEN ""
    ELSE ToLower(SubSeq(s, 1, Len(s) - 1)) \o ToLowerChar(Ch(s, Len(s)))

MinOf(S) == CHOOSE x \in S : \A y \in S : x <= y
MaxOf(S) == CHOOSE x \in S : \A y \in S : x >= y

\* the character classes of the patterns of parseResearchResponse
\*   "word": \w    "digit": \d    "space": \s    "sep": [:\s]
\*   "line": [^\n]    "name": [^\n.,]
InClass(class, c) ==
    CASE class = "word"  -> IsWordChar(c)
      [] class = "digit" -> IsDigit(c)
      [] class = "space" -> IsSpace(c)
      [] class = "sep"   -> c = ":" \/ IsSpace(c)
      [] class = "line"  -> c # "\n"
      [] class = "name"  -> c \notin {"\n", ".", ","}

\* the last position of the longest run of characters of the class that
\* starts at position j (j - 1 when the run is empty): a greedy `+` or `*`
RunEnd(s, j, class) ==
    MaxOf({q \in (j - 1)..Len(s) : \A p \in j..q : InClass(class, Ch(s, p))})

\* seq.slice(0, n) of an array or a string
Take(seq, n) == SubSeq(seq, 1, IF Len(seq) < n THEN Len(seq) ELSE n)

\* [...new Set(seq)]: the first occurrence of every element, in order
RECURSIVE Dedupe(_)
Dedupe(seq) ==
    IF Len(seq) = 0 THEN <<>>
    ELSE LET d == Dedupe(SubSeq(seq, 1, Len(seq) - 1))
             x == seq[Len(seq)]
         IN  IF \E i \in 1..Len(d) : d[i] = x THEN d ELSE Append(d, x)

\* content.match(/#\w+/g) || [], from position i on
RECURSIVE HashtagMatches(_, _)
HashtagMatches(s, i) ==
    IF i >= Len(s) THEN <<>>
    ELSE IF Ch(s, i) = "#" /\ IsWordChar(Ch(s, i + 1))
    THEN LET e == RunEnd(s, i + 1, "word")
         IN  <<SubSeq(s, i, e)>> \o HashtagMatches(s, e + 1)
    ELSE HashtagMatches(s, i + 1)

NoMatch == [ok |-> FALSE, end |-> 0, group |-> ""]

\* The four patterns of parseResearchResponse share one shape: a prefix, a
\* run of separators and a captured group.
\*   "trending": /trending[:\s]+([^\n]+)/gi
\*   "popular":  /popular[:\s]+([^\n]+)/gi
\*   "numbered": /\d+\.\s+([^\n]+)/g
\*   "brand":    /(?:brand|competitor|company|product)s?[:\s]+([^\n.,]+)/gi
\* PrefixEnd: the position after the prefix matched at i, 0 when it does not
\* match there (ls is the lower-cased text)
PrefixEnd(s, ls, kind, i) ==
    LET At(w) == i + Len(w) - 1 <= Len(ls) /\ SubSeq(ls, i, i + Len(w) - 1) = w
        Brand == {w \in {"brand", "competitor", "company", "product"} : At(w)}
    IN  CASE kind = "trending" -> IF At("trending") THEN i + 8 ELSE 0
          [] kind = "popular"  -> IF At("popular") THEN i + 7 ELSE 0
          [] kind = "numbered" ->
                IF IsDigit(Ch(s, i))
                THEN LET d == RunEnd(s, i, "digit")
                     IN  IF d < Len(s) /\ Ch(s, d + 1) = "." THEN d + 2 ELSE 0
                ELSE 0
          [] kind = "brand" ->
                IF Brand = {} THEN 0
                ELSE LET p == i + Len(CHOOSE w \in Brand : TRUE)
                     IN  IF p <= Len(ls) /\ Ch(ls, p) = "s" THEN p + 1 ELSE p

\* the separators and the group from position j on: the separator run is
\* greedy and gives characters back until the group can start
TailMatch(s, kind, j) ==
    LET sep    == IF kind = "numbered" THEN "space" ELSE "sep"
        group  == IF kind = "brand" THEN "name" ELSE "line"
        runEnd == RunEnd(s, j, sep)
        starts == {g \in (j + 1)..(runEnd + 1) :
                      g <= Len(s) /\ InClass(group, Ch(s, g))}
    IN  IF starts = {} THEN NoMatch
        ELSE LET g == MaxOf(starts)
                 e == RunEnd(s, g, group)
             IN  [ok |-> TRUE, end |-> e, group |-> SubSeq(s, g, e)]

MatchAt(s, ls, kind, i) ==
    LET j == PrefixEnd(s, ls, kind, i)
    IN  IF j = 0 THEN NoMatch ELSE TailMatch(s, kind, j)

\* content.matchAll(pattern): the captured groups of the successive matches
RECURSIVE MatchAll(_, _, _, _)
MatchAll(s, ls, kind, pos) ==
    LET found == {i \in pos..Len(s) : MatchAt(s, ls, kind, i).ok}
    IN  IF found = {} THEN <<>>
        ELSE LET m == MatchAt(s, ls, kind, MinOf(found))
             IN  <<m.group>> \o MatchAll(s, ls, kind, m.end + 1)

TrimAll(seq) == [i \in 1..Len(seq) |-> Trim(seq[i])]

\* const trendingTopics: string[] after the loop over the three patterns:
\* the groups shorter than 100 characters, trimmed, pattern by pattern
TopicMatches(content) ==
    LET ls       == ToLower(content)
        Short(t) == Len(t) < TopicMaxLength
    IN  TrimAll(SelectSeq(MatchAll(content, ls, "trending", 1)
                          \o MatchAll(content, ls, "popular", 1)
                          \o MatchAll(content, ls, "numbered", 1), Short))

\* const competitorMentions: string[] after the loop over the brand matches
MentionMatches(content) == TrimAll(MatchAll(content, ToLower(content), "brand", 1))

\* parseResearchResponse without the Set and the slice of its lists
parseResearchResponse_KeepsAll(content) ==
    [trendingTopics     |-> TopicMatches(content),
     relevantHashtags   |-> HashtagMatches(content, 1),
     marketInsights     |-> Take(content, InsightsLength),
     competitorMentions |-> MentionMatches(content)]

\* function parseResearchResponse(content: string): WebResearchResult
parseResearchResponse(content) ==
    [trendingTopics     |-> Take(Dedupe(TopicMatches(content)), TopicLimit),
     relevantHashtags   |-> Take(Dedupe(HashtagMatches(content, 1)), HashtagLimit),
     marketInsights     |-> Take(content, InsightsLength),
     competitorMentions |-> Take(Dedupe(MentionMatches(content)), CompetitorLimit)]

EmptyDigest ==
    [trendingTopics |-> <<>>, relevantHashtags |-> <<>>,
     marketInsights |-> "", competitorMentions |-> <<>>]

-----------------------------------------------------------------------------
(* webResearch.ts: performWebResearch after the awaited responses.create() *)

\* for (const content of item.content) if (content.type === "output_text")
\*     messageContent += content.text
RECURSIVE PartsText(_)
PartsText(parts) ==
    IF parts = <<>> THEN Return("")
    ELSE LET c == Head(parts)
         IN  IF c.t \in {"null", "undefined"}
             THEN Throw(TypeErrorOf("Cannot read properties of null (reading 'type')"))
             ELSE LET rest == PartsText(Tail(parts))
                      text == IF Prop(c, "type") = Str("output_text")
                              THEN (IF Prop(c, "text").t = "string"
                                    THEN Prop(c, "text").s ELSE "undefined")
                              ELSE ""
                  IN  IF rest.threw THEN rest ELSE Return(text \o rest.value)

\* for (const item of response.output) if (item.type === "message" && item.content) ...
RECURSIVE ItemsText(_)
ItemsText(items) ==
    IF items = <<>> THEN Return("")
    ELSE LET item    == Head(items)
             content == Prop(item, "content")
             own     ==
                 IF item.t \in {"null", "undefined"}
                 THEN Throw(TypeErrorOf("Cannot read properties of null (reading 'type')"))
                 ELSE IF Prop(item, "type") = Str("message") /\ Truthy(content)
                 THEN (IF content.t = "array" THEN PartsText(content.a)
                       ELSE IF content.t = "string" THEN Return("")
                       ELSE Throw(TypeErrorOf("item.content is not iterable")))
                 ELSE Return("")
         IN  IF own.threw THEN own
             ELSE LET rest == ItemsText(Tail(items))
                  IN  IF rest.threw THEN rest ELSE Return(own.value \o rest.value)

\* performWebResearch from the point where responses.create() settles with
\* `reply`: the try block and its catch, which returns the empty result
performWebResearch(reply) ==
    IF reply.k = "reject" THEN EmptyDigest
    ELSE IF Truthy(reply.output) /\ reply.output.t = "array"
    THEN LET text == ItemsText(reply.output.a)
         IN  IF text.threw THEN EmptyDigest ELSE parseResearchResponse(text.value)
    ELSE parseResearchResponse("")

-----------------------------------------------------------------------------
(* generate.ts: buildPrompt *)

\* seq.join(sep)
RECURSIVE JoinWith(_, _)
JoinWith(seq, sep) ==
    IF Len(seq) = 0 THEN ""
    ELSE IF Len(seq) = 1 THEN seq[1]
    ELSE seq[1] \o sep \o JoinWith(Tail(seq), sep)

\* tone.charAt(0).toUpperCase() + tone.slice(1)
Capitalize(s) ==
    IF Len(s) = 0 THEN ""
    ELSE LET c == SubSeq(s, 1, 1)
             i == {k \in 1..26 : SubSeq("abcdefghijklmnopqrstuvwxyz", k, k) = c}
         IN  (IF i = {} THEN c
              ELSE LET k == CHOOSE k \in i : TRUE
                   IN  SubSeq("ABCDEFGHIJKLMNOPQRSTUVWXYZ", k, k))
             \o SubSeq(s, 2, Len(s))

\* price.toFixed(2) of a price that is a whole number
ToFixed2(n) == ToString(n) \o ".00"

TONE_DESCRIPTIONS(tone) ==
    CASE tone = "professional" ->
           "Use a professional, business-appropriate tone. Focus on value proposition and credibility."
      [] tone = "casual" ->
           "Use a friendly, conversational tone. Be relatable and approachable."
      [] tone = "humorous" ->
           "Use wit and humor appropriately. Be entertaining while still promoting the product."
      [] tone = "inspirational" ->
           "Use motivational language. Focus on aspirations and positive outcomes."
      [] tone = "urgent" ->
           "Create a sense of urgency. Use action-oriented language and limited-time framing."

\* PLATFORM_GUIDELINES[p]; the lengths of config.platforms are those the
\* page shows for the platforms (280, 2200, 3000)
PLATFORM_GUIDELINES(p) ==
    CASE p = "twitter" ->
           "Twitter/X post (max 280 characters). Be concise, use 1-2 relevant hashtags, and make it shareable."
      [] p = "instagram" ->
           "Instagram caption (max 2200 characters). Be visually descriptive, use emojis, include 3-5 relevant hashtags at the end."
      [] p = "linkedin" ->
           "LinkedIn post (max 3000 characters). Be professional, provide value, and include a call to action."

\* the platform lines in the order of the table of guidelines, whatever the
\* order of the request
PlatformInstructions_TableOrder(platforms) ==
    LET Asked(p) == InSeq(p, platforms)
    IN  JoinWith([i \in 1..Len(SelectSeq(validPlatforms, Asked)) |->
                     "- " \o PLATFORM_GUIDELINES(SelectSeq(validPlatforms, Asked)[i])], "\n")

\* platforms.map((p) => `- ${PLATFORM_GUIDELINES[p]}`).join("\n")
PlatformInstructions(platforms) ==
    JoinWith([i \in 1..Len(platforms) |-> "- " \o PLATFORM_GUIDELINES(platforms[i])], "\n")

\* the condition of lines 57: a digest with a trending topic or a hashtag
HasResearchSection(research) ==
    /\ research # Undefined
    /\ Len(research.trendingTopics) > 0 \/ Len(research.relevantHashtags) > 0

\* let webResearchSection (lines 56-78)
WebResearchSection(research) ==
    IF HasResearchSection(research)
    THEN LET parts ==
                 (IF Len(research.trendingTopics) > 0
                  THEN <<"Current trending topics: "
                         \o JoinWith(research.trendingTopics, ", ")>>
                  ELSE <<>>)
                 \o (IF Len(research.relevantHashtags) > 0
                     THEN <<"Trending hashtags to consider: "
                            \o JoinWith(research.relevantHashtags, " ")>>
                     ELSE <<>>)
                 \o (IF research.marketInsights # ""
                     THEN <<"Market insights: " \o Take(research.marketInsights, 300)>>
                     ELSE <<>>)
         IN  "\n\nWEB RESEARCH INSIGHTS (use these to make posts more relevant and timely):\n"
             \o JoinWith(parts, "\n")
    ELSE ""

\* ${webResearch ? "7. ..." : ""}: the digest object is truthy, empty or not
ResearchGuideline(research) ==
    IF research # Undefined
    THEN "7. Incorporate relevant trending topics or hashtags from the web research when appropriate"
    ELSE ""

\* function buildPrompt(product, tone, platforms, webResearch?): string;
\* product has passed validateProduct
buildPrompt(product, tone, platforms, research) ==
    JoinWith(
      << "You are a social media marketing expert. Generate engaging social media posts for the following product.",
         "",
         "PRODUCT INFORMATION:",
         "- Name: " \o Prop(product, "name").s,
         "- Description: " \o Prop(product, "description").s,
         "- Price: $" \o ToFixed2(Prop(product, "price").n),
         IF Truthy(Prop(product, "category"))
         THEN "- Category: " \o Prop(product, "category").s ELSE "",
         "",
         "TONE: " \o Capitalize(tone),
         TONE_DESCRIPTIONS(tone),
         "",
         "PLATFORM REQUIREMENTS:",
         PlatformInstructions(platforms),
         WebResearchSection(research),
         "",
         "GUIDELINES:",
         "1. Each post should be unique and tailored to its platform's audience and format",
         "2. Include relevant emojis where appropriate",
         "3. Make the content engaging and shareable",
         "4. Highlight the key benefits of the product",
         "5. Include a subtle call-to-action",
         "6. Ensure all posts stay within character limits",
         ResearchGuideline(research),
         "",
         "Generate exactly one post for each platform: " \o JoinWith(platforms, ", ") \o ".",
         "",
         "Return your response as a JSON object with this exact structure:",
         "{",
         "  \"posts\": [",
         "    { \"platform\": \"platform_name\", \"content\": \"post content here\" }",
         "  ]",
         "}",
         "",
         "Only include the JSON object in your response, no additional text." >>,
      "\n")

-----------------------------------------------------------------------------
(* server.ts: app.post("/api/generate"), from the request to the first await *)

\* Validate without the `return` after the 400 answer for the platforms: the
\* handler writes the response and goes on
Validate_NoReturn(b) ==
    LET validation == validateProduct(b.product)
        selected   == SelectPlatforms(b.platforms)
    IN  IF ~validation.valid
        THEN [next |-> "respond", tone |-> "", platforms |-> <<>>,
              responses |-> <<ValidationFailed(validation.errors)>>]
        ELSE IF selected.threw
        THEN [next |-> "respond", tone |-> SelectTone(b.tone), platforms |-> <<>>,
              responses |-> CatchResponses(TypeErrorOf("platforms?.filter is not a function"))]
        ELSE IF Len(selected.list) = 0
        THEN [next |-> "continue", tone |-> SelectTone(b.tone), platforms |-> <<>>,
              responses |-> <<ValidationFailed(
                                <<"At least one valid platform must be selected">>)>>]
        ELSE [next |-> "continue", tone |-> SelectTone(b.tone),
              platforms |-> selected.list, responses |-> <<>>]

\* Lines 78-105: validation, tone and platform selection.  next = "respond":
\* the handler has answered and returned; next = "continue": it goes on to
\* the research and generation steps.
Validate(b) ==
    LET validation == validateProduct(b.product)
        selected   == SelectPlatforms(b.platforms)
    IN  IF ~validation.valid
        THEN [next |-> "respond", tone |-> "", platforms |-> <<>>,
              responses |-> <<ValidationFailed(validation.errors)>>]
        ELSE IF selected.threw
        THEN [next |-> "respond", tone |-> SelectTone(b.tone), platforms |-> <<>>,
              responses |-> CatchResponses(TypeErrorOf("platforms?.filter is not a function"))]
        ELSE IF Len(selected.list) = 0
        THEN [next |-> "respond", tone |-> SelectTone(b.tone), platforms |-> <<>>,
              responses |-> <<ValidationFailed(
                                <<"At least one valid platform must be selected">>)>>]
        ELSE [next |-> "continue", tone |-> SelectTone(b.tone),
              platforms |-> selected.list, responses |-> <<>>]

\* the handler without the inner try/catch: a research failure reaches the
\* outer catch, which answers with an error
ResearchFailed_Propagates(error) ==
    [next |-> "respond", responses |-> CatchResponses(error), warned |-> <<>>]

\* Lines 111-120: what the handler does when `await performWebResearch(...)`
\* throws: the inner catch logs a warning and the handler continues without
\* research (webResearch stays undefined)
ResearchFailed(error) ==
    [next |-> "continue", responses |-> <<>>,
     warned |-> <<"Web research failed, continuing without it:">>]

NoReply == [k |-> "none"]

NotCalled == [called |-> FALSE]

\* Lines 123-128 up to the await inside callOpenAI: generateSocialMediaPosts
\* builds the prompt and callOpenAI obtains the client, which throws when the
\* key is missing (the handler's catch then answers), else issues the call
StartGeneration(written, called, tone, platforms, research) ==
    LET got == getClient(genClient, apiKeySet, genBuilt)
    IN  /\ genArgs' = [called |-> TRUE, tone |-> tone, platforms |-> platforms,
                       webResearch |-> research,
                       \* history: the other invocation was waiting at an await
                       otherWaiting |-> parked.pc \in {"research", "generate"}]
        /\ genClient' = got.client
        /\ genBuilt' = got.built
        /\ handles' = IF got.threw THEN handles ELSE Append(handles, got.client)
        /\ IF got.threw
           THEN /\ pc' = "done"
                /\ responses' = written \o CatchResponses(got.err)
                /\ calls' = called \o <<"generateSocialMediaPosts", "buildPrompt",
                                        "callOpenAI">>
           ELSE /\ pc' = "generate"
                /\ responses' = written
                /\ calls' = called \o <<"generateSocialMediaPosts", "buildPrompt",
                                        "callOpenAI", "chat.completions.create">>

\* Lines 109-112 up to the await inside performWebResearch
StartResearch(written, tone, platforms) ==
    LET got    == getClient(researchClient, apiKeySet, researchBuilt)
        failed == ResearchFailed(got.err)
    IN  /\ researchClient' = got.client
        /\ researchBuilt' = got.built
        /\ researchPromise' = IF got.threw THEN "rejected" ELSE "pending"
        /\ warned' = IF got.threw THEN failed.warned ELSE <<>>
        /\ IF ~got.threw
           THEN /\ pc' = "research"
                /\ responses' = written
                /\ calls' = <<"performWebResearch", "responses.create">>
                /\ handles' = Append(handles, got.client)
                /\ UNCHANGED <<genClient, genBuilt, genArgs>>
           ELSE IF failed.next = "continue"
           THEN StartGeneration(written \o failed.responses, <<"performWebResearch">>,
                                tone, platforms, Undefined)
           ELSE /\ pc' = "done"
                /\ responses' = written \o failed.responses
                /\ calls' = <<"performWebResearch">>
                /\ UNCHANGED <<genClient, genBuilt, genArgs, handles>>

\* research on whatever is not an explicit false
ResearchRequested_UnlessFalse(b) == b.enableWebResearch # Bool(FALSE)

\* if (enableWebResearch)
ResearchRequested(b) == Truthy(b.enableWebResearch)

\* Express calls the handler with req.body = b
Receive(b) ==
    /\ pc = "idle"
    /\ requests < MaxRequests
    /\ requests' = requests + 1
    /\ body' = b
    /\ LET v == Validate(b)
       IN  /\ selectedTone' = v.tone
           /\ selectedPlatforms' = v.platforms
           /\ webResearch' = Undefined
           /\ researchReply' = NoReply
           /\ genReply' = NoReply
           /\ IF v.next = "respond"
              THEN /\ pc' = "done"
                   /\ responses' = v.responses
                   /\ calls' = <<>>
                   /\ researchPromise' = "none"
                   /\ warned' = <<>>
                   /\ UNCHANGED <<genClient, genBuilt, researchClient, researchBuilt,
                                  genArgs, handles>>
              ELSE IF ResearchRequested(b)
              THEN StartResearch(v.responses, v.tone, v.platforms)
              ELSE /\ StartGeneration(v.responses, <<>>, v.tone, v.platforms, Undefined)
                   /\ researchPromise' = "none"
                   /\ warned' = <<>>
                   /\ UNCHANGED <<researchClient, researchBuilt>>
    /\ UNCHANGED <<apiKeySet, parked, arg, ret, pageVars>>

\* a handler that issues the research call again when it failed, until it
\* succeeds
ResearchReturns_Retries(reply) ==
    /\ pc = "research"
    /\ researchReply' = reply
    /\ IF reply.k = "reject"
       THEN /\ calls' = calls \o <<"responses.create">>
            /\ UNCHANGED <<pc, researchPromise, webResearch, genArgs, genClient,
                           genBuilt, handles, responses>>
       ELSE /\ researchPromise' = "fulfilled"
            /\ webResearch' = performWebResearch(reply)
            /\ StartGeneration(responses, calls, selectedTone, selectedPlatforms,
                               performWebResearch(reply))
    /\ UNCHANGED <<apiKeySet, researchClient, researchBuilt, body, selectedTone,
                   selectedPlatforms, genReply, warned, requests, parked, arg, ret,
                   pageVars>>

\* the awaited performWebResearch settles: lines 112-128
ResearchReturns(reply) ==
    /\ pc = "research"
    /\ researchReply' = reply
    /\ researchPromise' = "fulfilled"
    /\ webResearch' = performWebResearch(reply)
    /\ StartGeneration(responses, calls, selectedTone, selectedPlatforms,
                       performWebResearch(reply))
    /\ UNCHANGED <<apiKeySet, researchClient, researchBuilt, body, selectedTone,
                   selectedPlatforms, genReply, warned, requests, parked, arg, ret,
                   pageVars>>

\* a handler that issues the generation call a second time when it failed
GenerationReturns_Retries(reply) ==
    /\ pc = "generate"
    /\ genReply' = reply
    /\ LET result == generateSocialMediaPosts(reply, selectedPlatforms)
           again  == result.threw /\ genReply = NoReply
       IN  /\ responses' = responses \o
                  (IF again THEN <<>>
                   ELSE IF result.threw THEN CatchResponses(result.err)
                   ELSE <<SuccessEnvelope(result.value, selectedTone,
                                          selectedPlatforms, webResearch)>>)
           /\ warned' = warned \o
                  (IF result.threw THEN <<>>
                   ELSE MissingWarning(result.value, selectedPlatforms))
           /\ calls' = IF again THEN calls \o <<"callOpenAI", "chat.completions.create">>
                       ELSE calls
           /\ pc' = IF again THEN "generate" ELSE "done"
    /\ UNCHANGED <<apiKeySet, genClient, genBuilt, researchClient, researchBuilt,
                   body, selectedTone, selectedPlatforms, webResearch,
                   researchReply, researchPromise, genArgs, requests,
                   handles, parked, arg, ret, pageVars>>

\* the awaited generateSocialMediaPosts settles: lines 123-164
GenerationReturns(reply) ==
    /\ pc = "generate"
    /\ genReply' = reply
    /\ LET result == generateSocialMediaPosts(reply, selectedPlatforms)
       IN  /\ responses' = responses \o
                  (IF result.threw THEN CatchResponses(result.err)
                   ELSE <<SuccessEnvelope(result.value, selectedTone,
                                          selectedPlatforms, webResearch)>>)
           /\ warned' = warned \o
                  (IF result.threw THEN <<>>
                   ELSE MissingWarning(result.value, selectedPlatforms))
    /\ pc' = "done"
    /\ UNCHANGED <<apiKeySet, genClient, genBuilt, researchClient, researchBuilt,
                   body, selectedTone, selectedPlatforms, webResearch,
                   researchReply, researchPromise, genArgs, calls, requests,
                   handles, parked, arg, ret, pageVars>>

\* the handler's promise has settled: its locals are gone and the process
\* waits for the next request (the module-level clients stay)
NoBody ==
    [product |-> Undefined, tone |-> Undefined, platforms |-> Undefined,
     enableWebResearch |-> Undefined]

\* the closure of a handler that has not been called: every invocation of
\* the async handler has its own req, res, selectedTone, selectedPlatforms
\* and webResearch
IdleFrame ==
    [pc |-> "idle", body |-> NoBody, selectedTone |-> "", selectedPlatforms |-> <<>>,
     webResearch |-> Undefined, researchReply |-> NoReply, researchPromise |-> "none",
     genReply |-> NoReply, genArgs |-> NotCalled, calls |-> <<>>, responses |-> <<>>,
     warned |-> <<>>, handles |-> <<>>]

\* the closure of the invocation whose continuation runs next
Running ==
    [pc |-> pc, body |-> body, selectedTone |-> selectedTone,
     selectedPlatforms |-> selectedPlatforms, webResearch |-> webResearch,
     researchReply |-> researchReply, researchPromise |-> researchPromise,
     genReply |-> genReply, genArgs |-> genArgs, calls |-> calls,
     responses |-> responses, warned |-> warned, handles |-> handles]

\* a handler whose two invocations share selectedTone, as a module-level
\* `let` would: the resumed invocation finds the other's tone
Resume_SharedTone ==
    /\ pc' = parked.pc
    /\ body' = parked.body
    /\ selectedTone' = selectedTone
    /\ selectedPlatforms' = parked.selectedPlatforms
    /\ webResearch' = parked.webResearch
    /\ researchReply' = parked.researchReply
    /\ researchPromise' = parked.researchPromise
    /\ genReply' = parked.genReply
    /\ genArgs' = parked.genArgs
    /\ calls' = parked.calls
    /\ responses' = parked.responses
    /\ warned' = parked.warned
    /\ handles' = parked.handles
    /\ parked' = Running
    /\ UNCHANGED <<apiKeySet, genClient, genBuilt, researchClient, researchBuilt,
                   requests, arg, ret, pageVars>>

\* the event loop turns to the other invocation of the handler: the one that
\* ran is suspended at its await (or has finished, or has not started) and
\* keeps its closure; the module-level clients are the same for both
Resume ==
    /\ pc' = parked.pc
    /\ body' = parked.body
    /\ selectedTone' = parked.selectedTone
    /\ selectedPlatforms' = parked.selectedPlatforms
    /\ webResearch' = parked.webResearch
    /\ researchReply' = parked.researchReply
    /\ researchPromise' = parked.researchPromise
    /\ genReply' = parked.genReply
    /\ genArgs' = parked.genArgs
    /\ calls' = parked.calls
    /\ responses' = parked.responses
    /\ warned' = parked.warned
    /\ handles' = parked.handles
    /\ parked' = Running
    /\ UNCHANGED <<apiKeySet, genClient, genBuilt, researchClient, researchBuilt,
                   requests, arg, ret, pageVars>>

HandlerReturns ==
    /\ pc = "done"
    /\ pc' = "idle"
    /\ body' = NoBody
    /\ selectedTone' = ""
    /\ selectedPlatforms' = <<>>
    /\ webResearch' = Undefined
    /\ researchReply' = NoReply
    /\ researchPromise' = "none"
    /\ genReply' = NoReply
    /\ genArgs' = NotCalled
    /\ calls' = <<>>
    /\ responses' = <<>>
    /\ warned' = <<>>
    /\ handles' = <<>>
    /\ UNCHANGED <<apiKeySet, genClient, genBuilt, researchClient, researchBuilt,
                   requests, parked, arg, ret, pageVars>>

-----------------------------------------------------------------------------
(* The environment: request bodies and the replies of the external service *)

Product(name, description, price, category) ==
    Obj([name |-> name, description |-> description, price |-> price,
         category |-> category])

Products ==
    { Product(Str("EcoBottle"), Str("Reusable bottle"), Num(20), Undefined),
      Product(Str(""), Str("Reusable bottle"), Num(20), Undefined),
      Product(Str("  "), Undefined, Str("20"), Num(7)),
      Product(Str(Repeat("n", NameMaxLength + 1)), Str("Reusable bottle"),
              Num(PriceMax + 1), Undefined),
      Undefined }

Tones == { Undefined, Null, Str(""), Str("casual"), Str("Casual"), Num(5) }

PlatformLists ==
    { Undefined, Null, Str("twitter"), Obj(<<>>),
      Arr(<<>>),
      Arr(<<Str("facebook")>>),
      Arr(<<Str("twitter")>>),
      Arr(<<Str("linkedin"), Str("facebook"), Str("twitter")>>),
      Arr(<<Num(1), Str("instagram")>>) }

Bodies ==
    [product : Products, tone : Tones, platforms : PlatformLists,
     enableWebResearch : {Undefined, Bool(FALSE), Bool(TRUE)}]

Rejects(error)   == [k |-> "reject", err |-> error, content |-> [k |-> "none"],
                     output |-> Undefined]
Completes(c)     == [k |-> "resolve", err |-> NoError, content |-> c,
                     output |-> Undefined]
Responds(output) == [k |-> "resolve", err |-> NoError, content |-> [k |-> "none"],
                     output |-> output]

\* errors the OpenAI client raises: APIError with the HTTP status (0 for a
\* connection error, which has none) and the provider's text
ProviderErrors ==
    { Err("APIError", 401, "401 Incorrect API key provided: sk-abc"),
      Err("APIError", 429, "429 Rate limit reached for requests"),
      Err("APIError", 429, "429 You exceeded your current quota"),
      Err("APIError", 500, "500 The server had an error"),
      Err("APIError", 503, "503 The engine is currently overloaded"),
      Err("APIError", 0, "Connection error."),
      Err("APIError", 403, "403 This API key may not use the model"),
      Err("APIError", 400, "400 Organization rate limit policy rejects max_tokens") }

Post(platform, content) == Obj([platform |-> Str(platform), content |-> Str(content)])

PostItems ==
    { Post("twitter", "Tweet"), Post("twitter", "Again"), Post("instagram", "Caption"),
      Post("linkedin", " "), Post("facebook", "Wall"), Null,
      Obj([platform |-> Str("linkedin")]) }

PostArrays == UNION {[1..n -> PostItems] : n \in 0..MaxPosts}

CompletionContents ==
    { [k |-> "nochoices"], [k |-> "none"], [k |-> "text"],
      [k |-> "json", v |-> Null],
      [k |-> "json", v |-> Arr(<<>>)],
      [k |-> "json", v |-> Obj([result |-> Str("ok")])],
      [k |-> "json", v |-> Obj([posts |-> Str("none")])] }
    \cup {[k |-> "json", v |-> Obj([posts |-> Arr(a)])] : a \in PostArrays}

GenerationReplies ==
    {Rejects(e) : e \in ProviderErrors} \cup {Completes(c) : c \in CompletionContents}

Message(parts) == Obj([type |-> Str("message"), content |-> parts])
OutputText(t)  == Obj([type |-> Str("output_text"), text |-> Str(t)])

ResearchOutputs ==
    { Undefined,
      Arr(<<Obj([type |-> Str("web_search_call")]), Message(Num(1))>>),
      Arr(<<Message(Arr(<<OutputText("No findings")>>))>>),
      Arr(<<Obj([type |-> Str("web_search_call")]),
            Message(Arr(<<OutputText("Trending: eco living #eco\n"),
                          OutputText("1. Refill #Eco #eco\nBrands: Acme, Bolt")>>))>>) }

ResearchReplies ==
    {Rejects(Err("APIError", 0, "Connection error."))}
    \cup {Responds(o) : o \in ResearchOutputs}

-----------------------------------------------------------------------------
(* frontend: api.ts, generatePosts after the awaited fetch() *)

\* how the promise of fetch() settles: rejected with an Error (no connection),
\* or fulfilled with a Response whose `ok` is true for the statuses 200..299
FetchRejects(err) == [settled |-> "rejected", err |-> err]
FetchResolves(status, payload) ==
    [settled |-> "fulfilled", ok |-> status \in 200..299, status |-> status,
     payload |-> payload]

\* the payload of a Response: the JSON text of a value, or text that is no JSON
JsonPayload(value) == [json |-> TRUE, value |-> value]
TextPayload == [json |-> FALSE, value |-> <<>>]

\* body: JSON.stringify({ product }): the argument is wrapped under `product`
RequestBody(request) == [product |-> request]

\* const response = await fetch(...); return response.json();
\* the status of the response is not looked at
generatePosts(reply) ==
    IF reply.settled = "rejected" THEN Throw(reply.err)
    ELSE IF ~reply.payload.json
    THEN Throw(Err("SyntaxError", 0, "Unexpected token < in JSON at position 0"))
    ELSE Return(reply.payload.value)

-----------------------------------------------------------------------------
(* frontend: validation.ts (the page component carries the same function) *)

\* a Product of the frontend: name, description and category are strings,
\* price is a number (NaN included)
FormProduct(name, description, price, category) ==
    [name |-> name, description |-> description, price |-> price,
     category |-> category]

\* export function validateProduct(product: Product): ValidationErrors;
\* the errors object as a function from the keys it has to their messages
frontendValidateProduct(product) ==
    (IF Trim(product.name) = "" THEN "name" :> "Product name is required"
     ELSE IF Len(product.name) > 200
     THEN "name" :> "Product name must be less than 200 characters"
     ELSE <<>>)
    @@ (IF Trim(product.description) = ""
        THEN "description" :> "Product description is required"
        ELSE IF Len(product.description) > 5000
        THEN "description" :> "Description must be less than 5000 characters"
        ELSE <<>>)
    @@ (IF ~product.price.nan /\ product.price.n < 0
        THEN "price" :> "Price cannot be negative"
        ELSE <<>>)

\* the product as the server finds it in req.body after JSON.stringify and
\* express.json(): strings stay strings, NaN becomes null
ToJson(product) ==
    Product(Str(product.name), Str(product.description),
            IF product.price.nan THEN Null ELSE product.price,
            Str(product.category))

-----------------------------------------------------------------------------
(* frontend: the page component Home() and its event handlers *)

NoEvent == [type |-> "none", target |-> ""]

\* the state of the component after its first render: the useState() values
PageInitial ==
    /\ pageProduct = [name |-> "", description |-> "", price |-> 0, category |-> ""]
    /\ pageTone = "professional"
    /\ pagePlatforms = <<"twitter", "instagram", "linkedin">>
    /\ pageValidationErrors = <<>>
    /\ pagePosts = Arr(<<>>)
    /\ pageIsLoading = FALSE
    /\ pageError = Null
    /\ pageInFlight = 0
    /\ pageEvent = NoEvent

\* the keys of PLATFORM_CONFIG, one toggle button each
PLATFORM_CONFIG == <<"twitter", "instagram", "linkedin">>

\* the values of TONE_OPTIONS, one button each
TONE_OPTIONS == <<"professional", "casual", "humorous", "inspirational", "urgent">>

\* prev.filter((p) => p !== platform)
Without(prev, platform) ==
    LET Other(p) == p # platform IN SelectSeq(prev, Other)

\* a toggle that removes a selected platform even when it is the last one
handlePlatformToggle_NoGuard(platform) ==
    /\ pagePlatforms' = IF InSeq(platform, pagePlatforms)
                        THEN Without(pagePlatforms, platform)
                        ELSE Append(pagePlatforms, platform)
    /\ pageEvent' = [type |-> "toggle", target |-> platform]
    /\ UNCHANGED <<serviceVars, arg, ret, pageProduct, pageTone, pageValidationErrors,
                   pagePosts, pageIsLoading, pageError, pageInFlight>>

\* const handlePlatformToggle = (platform) => setSelectedPlatforms((prev) => ...)
handlePlatformToggle(platform) ==
    /\ pagePlatforms' = IF InSeq(platform, pagePlatforms)
                        THEN IF Len(pagePlatforms) = 1 THEN pagePlatforms
                             ELSE Without(pagePlatforms, platform)
                        ELSE Append(pagePlatforms, platform)
    /\ pageEvent' = [type |-> "toggle", target |-> platform]
    /\ UNCHANGED <<serviceVars, arg, ret, pageProduct, pageTone, pageValidationErrors,
                   pagePosts, pageIsLoading, pageError, pageInFlight>>

\* onClick={() => setTone(option.value)}
SetTone(value) ==
    /\ pageTone' = value
    /\ pageEvent' = [type |-> "tone", target |-> value]
    /\ UNCHANGED <<serviceVars, arg, ret, pageProduct, pagePlatforms,
                   pageValidationErrors, pagePosts, pageIsLoading, pageError,
                   pageInFlight>>

\* { ...validationErrors, [field]: undefined } when validationErrors[field]
\* is set, validationErrors as it is otherwise
ClearError(errors, field) ==
    IF field \in DOMAIN errors /\ Truthy(errors[field])
    THEN [errors EXCEPT ![field] = Undefined]
    ELSE errors

\* the onChange handlers of the name input and the description textarea:
\* setProduct({ ...product, [field]: e.target.value }) and the reset of the
\* field's validation error
TextChanged(field, value) ==
    /\ pageProduct' = [pageProduct EXCEPT ![field] = value]
    /\ pageValidationErrors' = ClearError(pageValidationErrors, field)
    /\ pageEvent' = [type |-> "change", target |-> field]
    /\ UNCHANGED <<serviceVars, arg, ret, pageTone, pagePlatforms, pagePosts,
                   pageIsLoading, pageError, pageInFlight>>

\* what the user types into the two text fields
TypedTexts == {"", " ", "EcoBottle"}

\* parseFloat(value) of a text of an optional sign and digits: the number,
\* NaN when no digit follows the sign
ParseFloat(value) ==
    LET negative == Len(value) > 0 /\ SubSeq(value, 1, 1) = "-"
        from     == IF negative THEN 2 ELSE 1
        to       == RunEnd(value, from, "digit")
        DigitOf(c) == (CHOOSE k \in 1..10 : SubSeq(Digits, k, k) = c) - 1
        Value[i \in (from - 1)..to] ==
            IF i < from THEN 0 ELSE Value[i - 1] * 10 + DigitOf(SubSeq(value, i, i))
    IN  IF to < from THEN NaN
        ELSE Num(IF negative THEN 0 - Value[to] ELSE Value[to])

\* const handlePriceChange = (value: string) => ...
handlePriceChange(value) ==
    /\ pageProduct' = IF value = "" THEN [pageProduct EXCEPT !.price = 0]
                      ELSE IF ~ParseFloat(value).nan
                      THEN [pageProduct EXCEPT !.price = ParseFloat(value).n]
                      ELSE pageProduct
    /\ pageEvent' = [type |-> "change", target |-> "price"]
    /\ UNCHANGED <<serviceVars, arg, ret, pageTone, pagePlatforms,
                   pageValidationErrors, pagePosts, pageIsLoading, pageError,
                   pageInFlight>>

\* what the user types into the price field
PriceTexts == {"", "20", "-1", "-"}

\* const isFormValid = product.name.trim() && product.description.trim() &&
\*                     product.price >= 0 && selectedPlatforms.length > 0
isFormValid ==
    /\ Trim(pageProduct.name) # ""
    /\ Trim(pageProduct.description) # ""
    /\ pageProduct.price >= 0
    /\ Len(pagePlatforms) > 0

\* onClick={handleGeneratePosts} of the button, which is disabled while
\* isLoading || !isFormValid: the handler up to `await generatePosts(...)`
handleGeneratePosts ==
    /\ ~(pageIsLoading \/ ~isFormValid)
    /\ LET errors == frontendValidateProduct(
                         FormProduct(pageProduct.name, pageProduct.description,
                                     Num(pageProduct.price), pageProduct.category))
       IN  /\ pageValidationErrors' = [k \in DOMAIN errors |-> Str(errors[k])]
           /\ IF DOMAIN errors # {}
              THEN /\ pageEvent' = [type |-> "click", target |-> "invalid"]
                   /\ UNCHANGED <<pageIsLoading, pageError, pageInFlight>>
              ELSE IF Len(pagePlatforms) = 0
              THEN /\ pageError' = Str("Please select at least one platform")
                   /\ pageEvent' = [type |-> "click", target |-> "invalid"]
                   /\ UNCHANGED <<pageIsLoading, pageInFlight>>
              ELSE /\ pageIsLoading' = TRUE
                   /\ pageError' = Null
                   /\ pageInFlight' = pageInFlight + 1
                   /\ pageEvent' = [type |-> "click", target |-> "sent"]
    /\ UNCHANGED <<serviceVars, arg, ret, pageProduct, pageTone, pagePlatforms,
                   pagePosts>>

\* the request failed: fetch() rejected or the status is not ok
FailedReply(reply) == reply.settled = "rejected" \/ ~reply.ok

\* handleGeneratePosts from the point where the awaited generatePosts(...)
\* settles for the reply of fetch(): setPosts(result.posts), or the catch
\* block, and the finally block
GenerateSettles(reply) ==
    /\ pageInFlight > 0
    /\ LET result == generatePosts(reply)
       IN  IF ~result.threw
           THEN /\ pagePosts' = IF "posts" \in DOMAIN result.value
                                THEN Arr(result.value.posts) ELSE Undefined
                /\ UNCHANGED pageError
           ELSE /\ pageError' =
                     IF result.err.cls = "ApiException"
                     THEN (IF "details" \in DOMAIN result.err /\ Len(result.err.details) > 0
                           THEN Str(JoinWith(result.err.details, ". "))
                           ELSE Str(result.err.message))
                     ELSE Str(result.err.message)
                /\ pagePosts' = Arr(<<>>)
    /\ pageIsLoading' = FALSE
    /\ pageInFlight' = pageInFlight - 1
    /\ pageEvent' = [type |-> "settled",
                     target |-> IF FailedReply(reply) THEN "failed" ELSE "ok"]
    /\ UNCHANGED <<serviceVars, arg, ret, pageProduct, pageTone, pagePlatforms,
                   pageValidationErrors>>

-----------------------------------------------------------------------------
(* The service *)

Init ==
    /\ apiKeySet \in BOOLEAN
    /\ genClient = NoClient
    /\ researchClient = NoClient
    /\ genBuilt = 0
    /\ researchBuilt = 0
    /\ pc = "idle"
    /\ body = NoBody
    /\ selectedTone = ""
    /\ selectedPlatforms = <<>>
    /\ webResearch = Undefined
    /\ researchReply = NoReply
    /\ researchPromise = "none"
    /\ genReply = NoReply
    /\ genArgs = NotCalled
    /\ calls = <<>>
    /\ responses = <<>>
    /\ warned = <<>>
    /\ requests = 0
    /\ handles = <<>>
    /\ parked = IdleFrame
    /\ arg = Undefined
    /\ ret = NotCalled
    /\ PageInitial

Next ==
    \/ \E b \in Bodies : Receive(b)
    \/ \E reply \in ResearchReplies : ResearchReturns(reply)
    \/ \E reply \in GenerationReplies : GenerationReturns(reply)
    \/ HandlerReturns

Spec == Init /\ [][Next]_vars


-----------------------------------------------------------------------------
(* validateProduct called on its own, as tests/unit/validation.test.ts does *)

\* the service has not received a request
ServiceIdle ==
    /\ genClient = NoClient
    /\ researchClient = NoClient
    /\ genBuilt = 0
    /\ researchBuilt = 0
    /\ pc = "idle"
    /\ body = NoBody
    /\ selectedTone = ""
    /\ selectedPlatforms = <<>>
    /\ webResearch = Undefined
    /\ researchReply = NoReply
    /\ researchPromise = "none"
    /\ genReply = NoReply
    /\ genArgs = NotCalled
    /\ calls = <<>>
    /\ responses = <<>>
    /\ warned = <<>>
    /\ requests = 0
    /\ handles = <<>>
    /\ parked = IdleFrame

NameInputs ==
    { Undefined, Null, Num(5), Str(""), Str("  "), Str(" A "),
      Str(Repeat("n", NameMaxLength)), Str(Repeat("n", NameMaxLength + 1)) }

DescriptionInputs ==
    { Undefined, Bool(TRUE), Str(" \n"), Str("Reusable bottle"),
      Str(Repeat("d", DescriptionMaxLength)),
      Str(Repeat("d", DescriptionMaxLength + 1)) }

PriceInputs ==
    { Undefined, Null, Str("20"), NaN, Num(-1), Num(0), Num(20), Num(PriceMax),
      Num(PriceMax + 1) }

CategoryInputs ==
    { Undefined, Null, Str(""), Num(7), Str("Office"),
      Str(Repeat("c", CategoryMaxLength)), Str(Repeat("c", CategoryMaxLength + 1)) }

\* the values a caller can pass for `product`: objects with every combination
\* of field values, objects lacking the fields, and values that are no objects
ProductInputs ==
    { Product(n, d, p, c) : n \in NameInputs, d \in DescriptionInputs,
                            p \in PriceInputs, c \in CategoryInputs }
    \cup { Obj(<<>>), Obj([name |-> Str("EcoBottle")]), Arr(<<>>),
           Undefined, Null, Str("product"), Num(0) }

ValidationInit ==
    /\ ServiceIdle
    /\ apiKeySet = FALSE
    /\ arg \in ProductInputs
    /\ ret = NotCalled
    /\ PageInitial

\* const result = validateProduct(arg)
CallValidateProduct ==
    /\ ret = NotCalled
    /\ ret' = validateProduct(arg)
    /\ UNCHANGED <<serviceVars, arg, pageVars>>

ValidationNext == CallValidateProduct

ValidationSpec == ValidationInit /\ [][ValidationNext]_vars

-----------------------------------------------------------------------------
(* generatePosts called on its own, as the frontend's API client tests do *)

\* the answers POST /api/generate writes: a 400 for every list of validation
\* messages, the three answers of the catch block, and 200 envelopes
ServerAnswers ==
    { ValidationFailed(validateProduct(p).errors) :
          p \in { q \in ProductInputs : ~validateProduct(q).valid } }
    \cup { ValidationFailed(<<"At least one valid platform is required">>),
           ConfigurationError, RateLimitError, GenerationFailed }
    \cup { SuccessEnvelope(posts, "professional", <<"twitter", "instagram">>, Undefined) :
              posts \in { <<>>,
                          <<[platform |-> "twitter", content |-> "Hi"]>>,
                          <<[platform |-> "twitter", content |-> "Hi"],
                            [platform |-> "instagram", content |-> "Look"]>> } }

\* what fetch() can hand to generatePosts: the server's answers, the page of
\* a gateway that is no JSON, and a connection that fails
FetchReplies ==
    { FetchResolves(r.status, JsonPayload(r.body)) : r \in ServerAnswers }
    \cup { FetchResolves(502, TextPayload),
           FetchRejects(TypeErrorOf("Failed to fetch")) }

ApiClientInit ==
    /\ ServiceIdle
    /\ apiKeySet = FALSE
    /\ arg \in FetchReplies
    /\ ret = NotCalled
    /\ PageInitial

\* the promise of generatePosts(request) settles once fetch() has settled
\* with arg
CallGeneratePosts ==
    /\ ret = NotCalled
    /\ ret' = generatePosts(arg)
    /\ UNCHANGED <<serviceVars, arg, pageVars>>

ApiClientSpec == ApiClientInit /\ [][CallGeneratePosts]_vars

-----------------------------------------------------------------------------
(* Two requests in flight: the handler is entered again while the first   *)
(* invocation waits at one of its awaits                                  *)

\* requests that differ in tone, platforms and research switch, and one
\* the validation rejects
ConcurrentBodies ==
    [product : {Product(Str("EcoBottle"), Str("Reusable bottle"), Num(20), Undefined)},
     tone : {Str("casual"), Str("urgent")},
     platforms : {Arr(<<Str("twitter")>>), Arr(<<Str("instagram"), Str("linkedin")>>)},
     enableWebResearch : {Undefined, Bool(TRUE)}]
    \cup {[product |-> Undefined, tone |-> Str("casual"),
           platforms |-> Arr(<<Str("twitter")>>), enableWebResearch |-> Bool(TRUE)]}

ConcurrentResearchReplies ==
    { Rejects(Err("APIError", 0, "Connection error.")),
      Responds(Arr(<<Message(Arr(<<OutputText("Trending: eco living #eco\n")>>))>>)),
      Responds(Arr(<<Message(Arr(<<OutputText("1. Refill #refill")>>))>>)) }

ConcurrentGenerationReplies ==
    { Rejects(Err("APIError", 429, "429 Rate limit reached for requests")),
      Completes([k |-> "json", v |-> Obj([posts |-> Arr(<<Post("twitter", "Tweet")>>)])]),
      Completes([k |-> "json",
                 v |-> Obj([posts |-> Arr(<<Post("instagram", "Caption"),
                                            Post("linkedin", "Article")>>)])]) }

ConcurrentInit ==
    /\ apiKeySet \in BOOLEAN
    /\ ServiceIdle
    /\ arg = Undefined
    /\ ret = NotCalled
    /\ PageInitial

ConcurrentNext ==
    \/ \E b \in ConcurrentBodies : Receive(b)
    \/ \E reply \in ConcurrentResearchReplies : ResearchReturns(reply)
    \/ \E reply \in ConcurrentGenerationReplies : GenerationReturns(reply)
    \/ HandlerReturns
    \/ Resume

ConcurrentSpec == ConcurrentInit /\ [][ConcurrentNext]_vars

-----------------------------------------------------------------------------
(* The service when the external service answers or fails every call *)

\* every request body of the service; of the generation replies a failure,
\* a text that is no JSON and two arrays of posts
LiveNext ==
    \/ \E b \in Bodies : Receive(b)
    \/ \E reply \in ResearchReplies : ResearchReturns(reply)
    \/ \E reply \in ConcurrentGenerationReplies \cup {Completes([k |-> "text"])} :
           GenerationReturns(reply)
    \/ HandlerReturns

\* a pending promise settles, and the continuation of the handler then runs
LiveSpec ==
    /\ Init /\ [][LiveNext]_vars
    /\ WF_vars(\E reply \in ResearchReplies : ResearchReturns(reply))
    /\ WF_vars(\E reply \in ConcurrentGenerationReplies \cup {Completes([k |-> "text"])} :
                   GenerationReturns(reply))

-----------------------------------------------------------------------------
(* buildPrompt called on its own *)

\* what the handler passes to generateSocialMediaPosts: a product that has
\* passed validation, a tone of the five, a list of the recognized platforms
\* the request named (in its order, with its repetitions), and the digest of
\* the research or undefined
PromptDigests ==
    { Undefined, EmptyDigest,
      [EmptyDigest EXCEPT !.marketInsights = "Refillable bottles keep selling."],
      [EmptyDigest EXCEPT !.competitorMentions = <<"Acme">>],
      [EmptyDigest EXCEPT !.trendingTopics = <<"eco living", "refill">>],
      [EmptyDigest EXCEPT !.relevantHashtags = <<"#eco", "#Eco">>],
      [trendingTopics |-> <<"refill">>, relevantHashtags |-> <<"#eco">>,
       marketInsights |-> Repeat("i", 301), competitorMentions |-> <<"Acme", "Bolt">>] }

PromptInputs ==
    [product : { Product(Str("EcoBottle"), Str("Reusable bottle"), Num(20), Undefined),
                 Product(Str("Desk"), Str("Standing desk"), Num(0), Str("Office")) },
     tone : {validTones[i] : i \in 1..Len(validTones)},
     platforms : { <<"twitter">>, <<"linkedin">>, <<"twitter", "instagram">>,
                   <<"instagram", "twitter">>, <<"linkedin", "twitter", "linkedin">>,
                   <<"twitter", "instagram", "linkedin">>,
                   <<"linkedin", "instagram", "twitter">> },
     webResearch : PromptDigests]

PromptInit ==
    /\ ServiceIdle
    /\ apiKeySet = FALSE
    /\ arg \in PromptInputs
    /\ ret = NotCalled
    /\ PageInitial

\* const prompt = buildPrompt(product, tone, platforms, webResearch)
CallBuildPrompt ==
    /\ ret = NotCalled
    /\ ret' = [prompt |-> buildPrompt(arg.product, arg.tone, arg.platforms,
                                      arg.webResearch)]
    /\ UNCHANGED <<serviceVars, arg, pageVars>>

PromptSpec == PromptInit /\ [][CallBuildPrompt]_vars

-----------------------------------------------------------------------------
(* parseResearchResponse called on its own *)

\* the texts of the research call: one line or two of the lines above, and
\* texts with more hashtags, topics and brands than the digest keeps, with a
\* topic of 100 characters, and of 499 to 506 characters
RawTexts ==
  LET ResearchLines ==
        << "Trending: eco living #eco", "popular: refill stations", "1. Refill #Eco #eco",
           "Brands: Acme, Bolt", "2. eco living", "No findings #eco",
           "trending   eco living ", "Competitor: Acme. Company: Bolt" >>
  IN
    { ResearchLines[i] : i \in 1..Len(ResearchLines) }
    \cup { ResearchLines[i] \o "\n" \o ResearchLines[j] :
              i \in 1..Len(ResearchLines), j \in 1..Len(ResearchLines) }
    \cup { "",
           "#a1 #a2 #a3 #a4 #a1 #a5 #a6 #a7 #a8 #a9 #a10 #a11 #a12 #a2",
           "1. one\n2. two\n3. three\n2. two\n4. four\n5. five\n6. six\nTrending: seven",
           "Brand: A\nBrand: B\nBrand: A\nBrand: C\nBrand: D\nBrand: E\nBrand: F\nBrand: G",
           "Trending: " \o Repeat("t", TopicMaxLength) \o "\npopular: " \o Repeat("p", TopicMaxLength - 1),
           Repeat("x", InsightsLength - 1), Repeat("x", InsightsLength),
           Repeat("x", InsightsLength - 4) \o " #late_tag",
           Repeat("x", InsightsLength + 1) \o "\n1. after the cut" }

ResearchParseInit ==
    /\ ServiceIdle
    /\ apiKeySet = FALSE
    /\ arg \in RawTexts
    /\ ret = NotCalled
    /\ PageInitial

\* return parseResearchResponse(messageContent)
CallParseResearchResponse ==
    /\ ret = NotCalled
    /\ ret' = [digest |-> parseResearchResponse(arg)]
    /\ UNCHANGED <<serviceVars, arg, pageVars>>

ResearchParseSpec == ResearchParseInit /\ [][CallParseResearchResponse]_vars

-----------------------------------------------------------------------------
(* The frontend's validateProduct and the server's on the same product *)

FormProducts ==
    { FormProduct(n, d, p, c) :
        n \in { "", " ", "EcoBottle", " A ", Repeat("n", NameMaxLength),
                Repeat("n", NameMaxLength + 1) },
        d \in { "", "Reusable bottle", Repeat("d", DescriptionMaxLength),
                Repeat("d", DescriptionMaxLength + 1) },
        p \in { Num(-1), Num(0), Num(20), Num(999999), Num(PriceMax),
                Num(PriceMax + 1), NaN },
        c \in { "", "Office", Repeat("c", CategoryMaxLength),
                Repeat("c", CategoryMaxLength + 1) } }

FormValidationInit ==
    /\ ServiceIdle
    /\ apiKeySet = FALSE
    /\ arg \in FormProducts
    /\ ret = NotCalled
    /\ PageInitial

\* the form validates the product and the server validates what it is sent
SubmitProduct ==
    /\ ret = NotCalled
    /\ ret' = [errors |-> frontendValidateProduct(arg),
               server |-> validateProduct(ToJson(arg))]
    /\ UNCHANGED <<serviceVars, arg, pageVars>>

FormValidationSpec == FormValidationInit /\ [][SubmitProduct]_vars

-----------------------------------------------------------------------------
(* The page component on its own: the user's clicks and keystrokes *)

\* what fetch() hands to the page: a 200 envelope with posts, the 400, 429
\* and 500 answers of the server, and a connection that fails
PageReplies ==
    { FetchResolves(r.status, JsonPayload(r.body)) :
          r \in { SuccessEnvelope(<<[platform |-> "twitter", content |-> "Hi"]>>,
                                  "professional", <<"twitter">>, Undefined),
                  ValidationFailed(<<"Product price seems unrealistic">>),
                  RateLimitError, GenerationFailed } }
    \cup { FetchRejects(TypeErrorOf("Failed to fetch")) }

PageInit ==
    /\ ServiceIdle
    /\ apiKeySet = FALSE
    /\ arg = Undefined
    /\ ret = NotCalled
    /\ PageInitial

PageNext ==
    \/ \E i \in 1..Len(PLATFORM_CONFIG) : handlePlatformToggle(PLATFORM_CONFIG[i])
    \/ \E i \in 1..Len(TONE_OPTIONS) : SetTone(TONE_OPTIONS[i])
    \/ \E value \in TypedTexts : TextChanged("name", value)
    \/ \E value \in TypedTexts : TextChanged("description", value)
    \/ \E value \in PriceTexts : handlePriceChange(value)
    \/ handleGeneratePosts
    \/ \E reply \in PageReplies : GenerateSettles(reply)

PageSpec == PageInit /\ [][PageNext]_vars

-----------------------------------------------------------------------------
(* Properties *)

InFlight == pc # "idle"

ProductValid == validateProduct(body.product).valid

\* the platform selection of the current request resolves to an empty list
PlatformsEmpty ==
    /\ ~SelectPlatforms(body.platforms).threw
    /\ SelectPlatforms(body.platforms).list = <<>>

\* the request passed validation: lines 81-105 answered nothing
Validated ==
    /\ InFlight
    /\ ProductValid
    /\ ~SelectPlatforms(body.platforms).threw
    /\ SelectPlatforms(body.platforms).list # <<>>

ResearchEnabled == Truthy(body.enableWebResearch)

IsValidationFailure(r) ==
    r.status = 400 /\ r.body.error = "Validation failed"

IsSuccess(r) == "posts" \in DOMAIN r.body

\* the generation step of the current request produced posts
GenerationSucceeded ==
    genReply.k = "resolve" /\ ~ParseCompletion(genReply.content).threw

\* the provider rejected the generation call with this HTTP status
ProviderStatus(status) ==
    /\ genReply.k = "reject"
    /\ genReply.err.cls = "APIError"
    /\ genReply.err.status = status

\* C1: a request whose product fails validation or whose platform selection
\* resolves to an empty list is answered with the 400 'Validation failed'
\* response, and at no point of its run has a research or generation call
\* been started.
C1_FailFast ==
    (InFlight /\ (~ProductValid \/ PlatformsEmpty)) =>
        /\ pc = "done"
        /\ calls = <<>>
        /\ researchPromise = "none"
        /\ Len(responses) = 1
        /\ IsValidationFailure(responses[1])

\* C1 witness: a request with a valid product, research switched on and a
\* platform list without any recognized name has been answered with 400.
C1_Witness ==
    /\ pc = "done"
    /\ ProductValid
    /\ PlatformsEmpty
    /\ ResearchEnabled
    /\ apiKeySet
    /\ responses = <<ValidationFailed(<<"At least one valid platform must be selected">>)>>

\* C2 (as claimed): when the provider rejects the generation call with status
\* 429, the request ends with the 429 'Rate limit exceeded' response.
C2_RateLimitSurfaced ==
    (pc = "done" /\ ProviderStatus(429)) =>
        /\ Len(responses) = 1
        /\ responses[1].status = 429
        /\ responses[1].body.error = "Rate limit exceeded"

\* C3: once the research step of a validated request has settled, with a
\* result or with an exception, generateSocialMediaPosts has been called, and
\* the request ends with a success envelope exactly when the generation step
\* succeeded, whatever the research step did.
C3_ResearchNeverDecides ==
    (Validated /\ ResearchEnabled) =>
        /\ researchPromise \in {"pending", "fulfilled", "rejected"}
        /\ (researchPromise # "pending" =>
                \E i \in 1..Len(calls) : calls[i] = "generateSocialMediaPosts")
        /\ (pc = "done" =>
                /\ Len(responses) = 1
                /\ (responses[1].status = 200) = GenerationSucceeded
                /\ (responses[1].status = 200) = IsSuccess(responses[1]))

\* C3 witness: the external research call failed and the request still ended
\* with a success envelope.
C3_Witness ==
    /\ pc = "done"
    /\ Validated
    /\ ResearchEnabled
    /\ researchReply.k = "reject"
    /\ GenerationSucceeded
    /\ responses[1].status = 200

\* C4 (as claimed): performWebResearch never raises to its caller; whatever
\* fails, missing credentials included, its promise is fulfilled with the
\* all-empty digest.
C4_ResearchNeverRaises ==
    /\ researchPromise # "rejected"
    /\ (researchPromise = "fulfilled" /\ researchReply.k = "reject"
            => webResearch = EmptyDigest)

\* C5 (as claimed): when the external research call of a validated request
\* throws and generation succeeds, the success envelope has
\* webResearchUsed = false and webResearch = null.
C5_FailedResearchNotReported ==
    (pc = "done" /\ Validated /\ ResearchEnabled /\ researchReply.k = "reject"
     /\ GenerationSucceeded) =>
        /\ Len(responses) = 1
        /\ IsSuccess(responses[1])
        /\ responses[1].body.webResearchUsed = FALSE
        /\ responses[1].body.webResearch = Null

\* C6: in every success envelope count is the number of posts, every post's
\* platform is one of the envelope's platforms, and webResearchUsed is true
\* exactly when webResearch is not null.
C6_EnvelopeInvariant ==
    \A i \in 1..Len(responses) :
        IsSuccess(responses[i]) =>
            LET e == responses[i].body
            IN  /\ e.count = Len(e.posts)
                /\ \A j \in 1..Len(e.posts) :
                       InSeq(Prop(e.posts[j], "platform").s, e.platforms)
                /\ e.webResearchUsed = (e.webResearch # Null)
                /\ e.platforms = selectedPlatforms

\* C6 witness: a success envelope with a post and a digest, built from a
\* reply that also carried a post for a recognized platform nobody asked for.
C6_Witness ==
    /\ pc = "done"
    /\ Len(responses) = 1
    /\ IsSuccess(responses[1])
    /\ responses[1].body.count = 1
    /\ responses[1].body.webResearchUsed
    /\ Len(ParseCompletion(genReply.content).value) = 2

\* C7: a request is answered at most once while it runs and exactly once when
\* its handler has finished; the answer is either a success envelope without
\* an error field or an error body (error plus message or details) without
\* posts.
C7_OneResponse ==
    /\ Len(responses) <= 1
    /\ (pc \in {"research", "generate"} => responses = <<>>)
    /\ (pc = "done" => Len(responses) = 1)
    /\ \A i \in 1..Len(responses) :
           LET fields == DOMAIN responses[i].body
           IN  \/ /\ "posts" \in fields
                  /\ "error" \notin fields
                  /\ responses[i].status = 200
               \/ /\ "posts" \notin fields
                  /\ "error" \in fields
                  /\ ("message" \in fields) # ("details" \in fields)
                  /\ responses[i].status \in {400, 429, 500}

\* C7 witness: a request whose generation call was rejected with an error
\* that the handler's catch block recognizes has been answered.
C7_Witness ==
    /\ pc = "done"
    /\ ProviderStatus(401)
    /\ Len(responses) = 1
    /\ responses[1].status = 500

UnavailableFailure == ProviderStatus(500)

\* the provider failed in a way callOpenAI does not recognize
UnknownFailure ==
    /\ genReply.k = "reject"
    /\ ~(genReply.err.cls = "APIError" /\ genReply.err.status \in {401, 429, 500})

\* the completion is empty, is not JSON, or is a JSON value whose posts field
\* is absent or not an array
MalformedOutput ==
    /\ genReply.k = "resolve"
    /\ \/ genReply.content.k \in {"none", "text"}
       \/ /\ genReply.content.k = "json"
          /\ Prop(genReply.content.v, "posts").t # "array"

\* C8 (as claimed): when the generation call fails with an unavailable
\* service, an unknown error or malformed output, the request ends with the
\* 500 'Failed to generate posts' response and no posts.
C8_GenericFailure ==
    (pc = "done" /\ (UnavailableFailure \/ UnknownFailure \/ MalformedOutput)) =>
        responses = <<GenerationFailed>>

\* C8 (amended): the same, for an unknown error only when its message
\* contains neither "API key" nor "rate limit".
C8_GenericFailureAmended ==
    (pc = "done"
     /\ \/ UnavailableFailure
        \/ MalformedOutput
        \/ /\ UnknownFailure
           /\ ~Includes(genReply.err.message, "API key")
           /\ ~Includes(genReply.err.message, "rate limit")) =>
        responses = <<GenerationFailed>>

\* C8 witness: the model answered with text that is not JSON and the request
\* ended with the generic server error.
C8_Witness ==
    /\ pc = "done"
    /\ genReply.k = "resolve"
    /\ genReply.content.k = "text"
    /\ responses = <<GenerationFailed>>

\* C9: when the provider rejects the generation call with status 401, the
\* request ends with the fixed 500 'API configuration error' response, whose
\* message contains nothing of the provider's error text.
C9_ConfigErrorSanitized ==
    (pc = "done" /\ ProviderStatus(401)) =>
        /\ responses = <<ConfigurationError>>
        /\ ~Includes(responses[1].body.message, genReply.err.message)
        /\ ~Includes(responses[1].body.message, "sk-")
        /\ DOMAIN responses[1].body = {"error", "message"}

\* C9 witness: a call rejected with status 401 has been answered.
C9_Witness ==
    /\ pc = "done"
    /\ ProviderStatus(401)
    /\ Includes(genReply.err.message, "sk-abc")
    /\ responses = <<ConfigurationError>>

\* the generation step failed because getClient found no key: callOpenAI was
\* entered and chat.completions.create never called
MissingKeyFailure ==
    /\ pc = "done"
    /\ ~apiKeySet
    /\ InSeq("callOpenAI", calls)
    /\ ~InSeq("chat.completions.create", calls)

\* C10 (as claimed): when the generation step fails because OPENAI_API_KEY
\* is not set, the request ends with the 500 'API configuration error'
\* response.
C10_MissingKeyIsConfigError ==
    MissingKeyFailure =>
        /\ Len(responses) = 1
        /\ responses[1].status = 500
        /\ responses[1].body.error = "API configuration error"

-----------------------------------------------------------------------------
(* Properties of validateProduct *)

\* the direct call has returned
Returned == ret # NotCalled

\* the argument is something validateProduct looks into: a non-null object
IsProductObject == arg.t \in {"object", "array"}

Blank(s) == \A i \in 1..Len(s) : IsSpace(SubSeq(s, i, i))

\* a required text field is missing: absent, null, not a string, or blank
TextMissing(v) == v.t # "string" \/ Blank(v.s)

\* what the contract asks for each field: the message for the field's
\* defect, <<>> for a field without one
NameDefect(p) ==
    LET v == Prop(p, "name")
    IN  IF TextMissing(v) THEN <<"Product name is required">>
        ELSE IF Len(v.s) >= NameMaxLength + 1
        THEN <<"Product name must be less than 200 characters">>
        ELSE <<>>

DescriptionDefect(p) ==
    LET v == Prop(p, "description")
    IN  IF TextMissing(v) THEN <<"Product description is required">>
        ELSE IF Len(v.s) >= DescriptionMaxLength + 1
        THEN <<"Product description must be less than 5000 characters">>
        ELSE <<>>

PriceDefect(p) ==
    LET v == Prop(p, "price")
    IN  IF v.t \in {"undefined", "null"} THEN <<"Product price is required">>
        ELSE IF v.t # "number" \/ v.nan THEN <<"Product price must be a valid number">>
        ELSE IF v.n \in 0..PriceMax THEN <<>>
        ELSE IF v.n < 0 THEN <<"Product price cannot be negative">>
        ELSE <<"Product price seems unrealistic">>

CategoryMessages ==
    { "Product category must be a string",
      "Product category must be less than 100 characters" }

\* C11: for every product object the error list is the message of the name
\* defect, of the description defect and of the price defect, every one that
\* exists and in this order, followed by at most one message about the
\* category: no defect hides another and no field is reported twice.
C11_AllDefectsReported ==
    (Returned /\ IsProductObject) =>
        LET required == NameDefect(arg) \o DescriptionDefect(arg) \o PriceDefect(arg)
            n        == Len(required)
        IN  /\ Len(ret.errors) \in {n, n + 1}
            /\ SubSeq(ret.errors, 1, n) = required
            /\ Len(ret.errors) = n + 1 => ret.errors[n + 1] \in CategoryMessages
            /\ ret.valid = (ret.errors = <<>>)

\* C11 witness: a product whose name, description, price and category are all
\* defective has been validated and all four messages were returned.
C11_Witness ==
    /\ Returned
    /\ arg = Product(Str("  "), Undefined, Str("20"), Num(7))
    /\ ret.errors = <<"Product name is required", "Product description is required",
                      "Product price must be a valid number",
                      "Product category must be a string">>

\* every field of the product is within the contract's limits
WithinLimits(p) ==
    LET name        == Prop(p, "name")
        description == Prop(p, "description")
        price       == Prop(p, "price")
        category    == Prop(p, "category")
    IN  /\ name.t = "string" /\ ~Blank(name.s) /\ Len(name.s) <= NameMaxLength
        /\ description.t = "string" /\ ~Blank(description.s)
        /\ Len(description.s) <= DescriptionMaxLength
        /\ price.t = "number" /\ ~price.nan /\ price.n >= 0 /\ price.n <= PriceMax
        /\ \/ category.t \in {"undefined", "null"}
           \/ category.t = "string" /\ Len(category.s) <= CategoryMaxLength

\* C12: a product within the limits is valid with no errors; a name of 201
\* characters gets the name-length message; a description of 5001 characters,
\* a category of 101, a price above 1,000,000,000 or below 0 make it invalid.
C12_LimitsAreExact ==
    (Returned /\ IsProductObject) =>
        LET name        == Prop(arg, "name")
            description == Prop(arg, "description")
            price       == Prop(arg, "price")
            category    == Prop(arg, "category")
        IN  /\ WithinLimits(arg) => ret = [valid |-> TRUE, errors |-> <<>>]
            /\ (name.t = "string" /\ Len(name.s) = NameMaxLength + 1) =>
                   /\ ~ret.valid
                   /\ InSeq("Product name must be less than 200 characters", ret.errors)
            /\ (description.t = "string" /\ Len(description.s) = DescriptionMaxLength + 1)
                   => ~ret.valid
            /\ (category.t = "string" /\ Len(category.s) = CategoryMaxLength + 1)
                   => ~ret.valid
            /\ (price.t = "number" /\ ~price.nan /\ (price.n > PriceMax \/ price.n < 0))
                   => ~ret.valid

\* C12 witness: a product with every field exactly at its limit was accepted.
C12_Witness ==
    /\ Returned
    /\ arg = Product(Str(Repeat("n", NameMaxLength)),
                     Str(Repeat("d", DescriptionMaxLength)),
                     Num(PriceMax), Str(Repeat("c", CategoryMaxLength)))
    /\ ret.valid

-----------------------------------------------------------------------------
(* Properties of the request's tone, platforms and research switch *)

\* the five tones of the contract
ContractTones == {"professional", "casual", "humorous", "inspirational", "urgent"}

\* the tone the contract resolves the request's tone to
ResolvedTone ==
    IF body.tone.t = "string" /\ body.tone.s \in ContractTones
    THEN body.tone.s ELSE "professional"

\* C13: whatever the request's tone is, a validated request is never answered
\* with a validation error; the tone handed to generateSocialMediaPosts and
\* the tone of the success envelope are the request's tone when it is one of
\* the five tones and "professional" otherwise.
C13_ToneResolution ==
    Validated =>
        /\ selectedTone = ResolvedTone
        /\ \A i \in 1..Len(responses) : ~IsValidationFailure(responses[i])
        /\ genArgs.called => genArgs.tone = ResolvedTone
        /\ \A i \in 1..Len(responses) :
               IsSuccess(responses[i]) => responses[i].body.tone = ResolvedTone

\* C13 witness: a request whose tone differs from a known tone only by case
\* ended with a success envelope carrying the default tone.
C13_Witness ==
    /\ pc = "done"
    /\ body.tone = Str("Casual")
    /\ genArgs.called
    /\ genArgs.tone = "professional"
    /\ Len(responses) = 1
    /\ IsSuccess(responses[1])
    /\ responses[1].body.tone = "professional"

ContractPlatforms == {"twitter", "instagram", "linkedin"}

\* the request's platforms field is absent or is an array
PlatformsAbsentOrArray == body.platforms.t \in {"undefined", "null", "array"}

\* the recognized platform names of an array, in its order
RECURSIVE Recognized(_)
Recognized(items) ==
    IF items = <<>> THEN <<>>
    ELSE LET x == Head(items)
         IN  (IF x.t = "string" /\ x.s \in ContractPlatforms THEN <<x.s>> ELSE <<>>)
             \o Recognized(Tail(items))

\* the list the contract resolves the request's platforms to
ResolvedPlatforms ==
    IF body.platforms.t = "array" THEN Recognized(body.platforms.a)
    ELSE <<"twitter", "instagram", "linkedin">>

NoPlatformAnswer ==
    ValidationFailed(<<"At least one valid platform must be selected">>)

\* C14: for a request whose platforms field is absent or an array, the
\* request is answered with 'At least one valid platform must be selected'
\* exactly when its product is valid and the resolved list is empty;
\* otherwise a valid request goes on with the resolved list, which is the
\* list handed to generateSocialMediaPosts and echoed in the envelope.
C14_PlatformResolution ==
    (InFlight /\ PlatformsAbsentOrArray) =>
        /\ (\E i \in 1..Len(responses) : responses[i] = NoPlatformAnswer)
               = (ProductValid /\ ResolvedPlatforms = <<>>)
        /\ (ProductValid /\ ResolvedPlatforms # <<>>) =>
               /\ selectedPlatforms = ResolvedPlatforms
               /\ genArgs.called => genArgs.platforms = ResolvedPlatforms
               /\ \A i \in 1..Len(responses) :
                      IsSuccess(responses[i]) =>
                          responses[i].body.platforms = ResolvedPlatforms

\* C14 witness: a request naming linkedin, an unknown platform and twitter
\* ended with a success envelope for linkedin and twitter, in this order.
C14_Witness ==
    /\ pc = "done"
    /\ body.platforms = Arr(<<Str("linkedin"), Str("facebook"), Str("twitter")>>)
    /\ genArgs.called
    /\ genArgs.platforms = <<"linkedin", "twitter">>
    /\ Len(responses) = 1
    /\ IsSuccess(responses[1])
    /\ responses[1].body.platforms = <<"linkedin", "twitter">>

\* C15 (as claimed): a request with a valid product whose platforms field is
\* present but not an array is answered with the 400 'At least one valid
\* platform must be selected' response, and no external call is made.
C15_NonArrayRejected ==
    (InFlight /\ ProductValid /\ ~PlatformsAbsentOrArray) =>
        /\ pc = "done"
        /\ responses = <<NoPlatformAnswer>>
        /\ calls = <<>>

\* the request leaves research off: enableWebResearch is absent or false
ResearchOff == body.enableWebResearch \in {Undefined, Bool(FALSE)}

\* C16: a validated request with enableWebResearch absent or false never
\* starts the research call, hands no digest to generateSocialMediaPosts, and
\* a success envelope has webResearchUsed = false and webResearch = null.
C16_NoResearchUnlessAsked ==
    (Validated /\ ResearchOff) =>
        /\ ~InSeq("performWebResearch", calls)
        /\ ~InSeq("responses.create", calls)
        /\ researchPromise = "none"
        /\ pc # "research"
        /\ genArgs.called
        /\ genArgs.webResearch = Undefined
        /\ \A i \in 1..Len(responses) :
               IsSuccess(responses[i]) =>
                   /\ responses[i].body.webResearchUsed = FALSE
                   /\ responses[i].body.webResearch = Null

\* C16 witness: a request with enableWebResearch absent ended with a success
\* envelope that reports no research.
C16_Witness ==
    /\ pc = "done"
    /\ body.enableWebResearch = Undefined
    /\ genArgs.called
    /\ Len(responses) = 1
    /\ IsSuccess(responses[1])
    /\ responses[1].body.count > 0
    /\ ~responses[1].body.webResearchUsed

-----------------------------------------------------------------------------
(* Properties of the posts that come back from the model *)

\* the model's completion is a JSON object whose posts field is an array
WellFormedReply ==
    /\ genReply.k = "resolve"
    /\ genReply.content.k = "json"
    /\ Prop(genReply.content.v, "posts").t = "array"

\* the items of that array
ModelItems == Prop(genReply.content.v, "posts").a

\* the item is an object with a requested platform and a content string that
\* is not blank
Usable(item, requested) ==
    /\ item.t = "object"
    /\ Prop(item, "platform").t = "string"
    /\ \E i \in 1..Len(requested) : requested[i] = Prop(item, "platform").s
    /\ Prop(item, "content").t = "string"
    /\ ~Blank(Prop(item, "content").s)

\* the usable items of a list, in its order
RECURSIVE UsableItems(_, _)
UsableItems(items, requested) ==
    IF items = <<>> THEN <<>>
    ELSE (IF Usable(Head(items), requested) THEN <<Head(items)>> ELSE <<>>)
         \o UsableItems(Tail(items), requested)

\* C17: when the model returns a posts array, the request ends with a
\* success envelope whose posts are exactly the items of that array that are
\* objects with a requested platform and a non-blank content string, in the
\* array's order; no item makes the request fail.
C17_PostsAreUsableSubsequence ==
    (pc = "done" /\ Validated /\ WellFormedReply) =>
        /\ Len(responses) = 1
        /\ IsSuccess(responses[1])
        /\ responses[1].body.posts = UsableItems(ModelItems, genArgs.platforms)

\* C17 witness: the model returned null followed by an instagram post; the
\* envelope holds the instagram post alone.
C17_Witness ==
    /\ pc = "done"
    /\ WellFormedReply
    /\ ModelItems = <<Null, Post("instagram", "Caption")>>
    /\ Len(responses) = 1
    /\ IsSuccess(responses[1])
    /\ responses[1].body.posts = <<Post("instagram", "Caption")>>

\* the requested platforms for which the envelope r holds no post
Uncovered(r) ==
    {p \in {genArgs.platforms[i] : i \in 1..Len(genArgs.platforms)} :
        ~\E j \in 1..Len(r.body.posts) : Prop(r.body.posts[j], "platform") = Str(p)}

MissingPrefix == "Missing posts for platforms: "

IsMissingWarning(w) ==
    Len(w) > Len(MissingPrefix) /\ SubSeq(w, 1, Len(MissingPrefix)) = MissingPrefix

\* C18: when the model returns a posts array, the request ends with status
\* 200 and a success envelope whose count is the length of its posts list,
\* also when some or all requested platforms have no post; a warning about
\* the missing platforms is logged exactly in that case.
C18_ShortfallIsSuccess ==
    (pc = "done" /\ Validated /\ WellFormedReply) =>
        /\ Len(responses) = 1
        /\ responses[1].status = 200
        /\ IsSuccess(responses[1])
        /\ "error" \notin DOMAIN responses[1].body
        /\ responses[1].body.count = Len(responses[1].body.posts)
        /\ (Uncovered(responses[1]) # {})
               = (\E i \in 1..Len(warned) : IsMissingWarning(warned[i]))

\* C18 witness: all three platforms were requested, the model returned items
\* of which none is usable, and the request ended with an empty success
\* envelope and a warning naming the three platforms.
C18_Witness ==
    /\ pc = "done"
    /\ WellFormedReply
    /\ Len(ModelItems) = MaxPosts
    /\ Len(responses) = 1
    /\ responses[1].status = 200
    /\ responses[1].body.posts = <<>>
    /\ responses[1].body.count = 0
    /\ warned = <<"Missing posts for platforms: twitter, instagram, linkedin">>

\* C19 (as claimed): no two posts of a success envelope have the same
\* platform.
C19_UniqueByPlatform ==
    \A i \in 1..Len(responses) :
        IsSuccess(responses[i]) =>
            \A j, k \in 1..Len(responses[i].body.posts) :
                j # k => Prop(responses[i].body.posts[j], "platform")
                         # Prop(responses[i].body.posts[k], "platform")

-----------------------------------------------------------------------------
(* Properties of the page component *)

\* what a click on the button of platform p makes of the selection prev
AfterToggle(prev, p) ==
    LET selected == {prev[i] : i \in 1..Len(prev)}
    IN  IF p \notin selected THEN prev \o <<p>>
        ELSE IF selected = {p} THEN prev
        ELSE LET kept == {i \in 1..Len(prev) : prev[i] # p}
                 Nth(n) == CHOOSE i \in kept : Cardinality({j \in kept : j <= i}) = n
             IN  [n \in 1..Cardinality(kept) |-> prev[Nth(n)]]

SelectionWellFormed ==
    /\ Len(pagePlatforms) >= 1
    /\ \A i, j \in 1..Len(pagePlatforms) : i # j => pagePlatforms[i] # pagePlatforms[j]

\* C20: after any sequence of clicks the selected platform list is not empty
\* and holds no platform twice, and every toggle click leaves the selection
\* as it is when it hits the only selected platform, removes the platform when
\* it is selected among others, and appends it when it is not selected.
C20_ToggleKeepsSelection ==
    /\ []SelectionWellFormed
    /\ [][pageEvent'.type = "toggle" =>
              pagePlatforms' = AfterToggle(pagePlatforms, pageEvent'.target)]_vars

\* C20 witness: the selection is down to linkedin alone and the last click
\* was on linkedin's button.
C20_Witness ==
    /\ pagePlatforms = <<"linkedin">>
    /\ pageEvent = [type |-> "toggle", target |-> "linkedin"]

-----------------------------------------------------------------------------
(* Properties of the frontend's API client *)

\* generatePosts has settled for the reply in arg
ClientSettled == ret # NotCalled /\ "settled" \in DOMAIN arg

\* the `details` of a thrown error and of a response body, <<>> when absent
DetailsOf(r) == IF "details" \in DOMAIN r THEN r.details ELSE <<>>

\* C21: whenever the server answers with a status that is not ok,
\* generatePosts rejects with an ApiException that carries the HTTP status
\* and the details list of the response, and it resolves with the response
\* body only when the status is ok.
C21_FailureIsException ==
    (ClientSettled /\ arg.settled = "fulfilled" /\ arg.payload.json) =>
        IF arg.ok
        THEN ~ret.threw /\ ret.value = arg.payload.value
        ELSE /\ ret.threw
             /\ ret.err.cls = "ApiException"
             /\ ret.err.status = arg.status
             /\ DetailsOf(ret.err) = DetailsOf(arg.payload.value)

-----------------------------------------------------------------------------
(* Properties of requests in flight together *)

\* the two invocations of the handler
Frames == {Running, parked}

\* a frame whose external generation call was issued
IssuedGeneration(f) == InSeq("chat.completions.create", f.calls)
IssuedResearch(f) == InSeq("responses.create", f.calls)

ClientsBuilt == genBuilt + researchBuilt

\* every external call of a frame went to the first client its module built
UsesFirstHandle(f) ==
    \A i \in 1..Len(f.handles) : f.handles[i] = NewClient(1)

\* the key is missing: neither module holds a handle and no call went out
NothingHalfBuilt ==
    ~apiKeySet =>
        /\ genClient = NoClient /\ researchClient = NoClient
        /\ ClientsBuilt = 0
        /\ \A f \in Frames : f.handles = <<>> /\ ~IssuedGeneration(f) /\ ~IssuedResearch(f)

Alone(b, rReply, gReply) ==
    LET v        == Validate(b)
        research == IF ResearchRequested(b) THEN performWebResearch(rReply)
                    ELSE Undefined
        result   == generateSocialMediaPosts(gReply, v.platforms)
    IN  IF v.next = "respond" THEN v.responses
        ELSE IF ~apiKeySet
        THEN CatchResponses(Err("Error", 0, "OPENAI_API_KEY environment variable is not set"))
        ELSE IF result.threw THEN CatchResponses(result.err)
        ELSE <<SuccessEnvelope(result.value, SelectTone(b.tone),
                               SelectPlatforms(b.platforms).list, research)>>

\* C23: for any interleaving of two requests in flight at their suspension
\* points, the response of each is the one it gets when it runs alone with
\* the same body and the same replies to its own external calls; the tone,
\* platforms, digest and posts of the other request do not appear in it.
C23_NoInterference ==
    \A f \in Frames :
        f.pc = "done" =>
            /\ f.responses = Alone(f.body, f.researchReply, f.genReply)
            /\ f.genArgs.called =>
                  /\ f.genArgs.tone = SelectTone(f.body.tone)
                  /\ f.genArgs.platforms = SelectPlatforms(f.body.platforms).list
                  /\ f.genArgs.webResearch = f.webResearch

\* both requests were in flight together and have been answered with posts:
\* the one that ran second was received while the first waited for its
\* research call, and they differ in tone, platforms, digest and posts
C23_Witness ==
    /\ pc = "done" /\ parked.pc = "done"
    /\ genArgs.called /\ genArgs.otherWaiting
    /\ IsSuccess(responses[1]) /\ IsSuccess(parked.responses[1])
    /\ responses[1].body.tone = "casual" /\ parked.responses[1].body.tone = "urgent"
    /\ responses[1].body.platforms = <<"twitter">>
    /\ parked.responses[1].body.platforms = <<"instagram", "linkedin">>
    /\ responses[1].body.webResearchUsed /\ parked.responses[1].body.webResearchUsed
    /\ responses[1].body.webResearch # parked.responses[1].body.webResearch
    /\ Len(responses[1].body.posts) = 1 /\ Len(parked.responses[1].body.posts) = 2

-----------------------------------------------------------------------------
(* Properties of the order of the external calls *)

\* how often `name` occurs in the calls of the current request
Count(name) == Cardinality({i \in 1..Len(calls) : calls[i] = name})

\* the position of the first `name` in the calls, 0 when it is absent
IndexOf(name) ==
    IF InSeq(name, calls)
    THEN CHOOSE i \in 1..Len(calls) :
             calls[i] = name /\ \A j \in 1..(i - 1) : calls[j] # name
    ELSE 0

\* C24: within one validated request at most one research call is issued,
\* it has returned or failed before the prompt is built and the generation
\* call is issued, and exactly one generation call is issued: the handler
\* calls the generation client once, which sends one request to the
\* external service (none when it has no key) and never a second one after
\* a failure.
C24_SequentialCalls ==
    Validated =>
        /\ Count("performWebResearch") <= 1 /\ Count("responses.create") <= 1
        /\ Count("generateSocialMediaPosts") <= 1 /\ Count("buildPrompt") <= 1
        /\ Count("callOpenAI") <= 1 /\ Count("chat.completions.create") <= 1
        /\ pc = "research" => researchPromise = "pending" /\ ~InSeq("buildPrompt", calls)
        /\ InSeq("buildPrompt", calls) =>
              /\ researchPromise \in {"none", "fulfilled", "rejected"}
              /\ IndexOf("performWebResearch") < IndexOf("buildPrompt")
              /\ IndexOf("responses.create") < IndexOf("buildPrompt")
              /\ IndexOf("buildPrompt") < IndexOf("callOpenAI")
        /\ InSeq("chat.completions.create", calls) =>
              IndexOf("callOpenAI") < IndexOf("chat.completions.create")
        /\ pc \in {"generate", "done"} =>
              /\ Count("generateSocialMediaPosts") = 1 /\ Count("callOpenAI") = 1
              /\ Count("chat.completions.create") = (IF apiKeySet THEN 1 ELSE 0)

\* a request whose research call returned and whose single generation call
\* then failed has been answered with the error, without a second attempt
C24_Witness ==
    /\ Validated /\ pc = "done"
    /\ calls = <<"performWebResearch", "responses.create", "generateSocialMediaPosts",
                 "buildPrompt", "callOpenAI", "chat.completions.create">>
    /\ researchPromise = "fulfilled"
    /\ genReply.k = "reject"
    /\ ~IsSuccess(responses[1])

-----------------------------------------------------------------------------
(* Properties of the request pipeline as a whole *)

\* how far the handler has got: received and validated (idle before that),
\* research attempted, prompt built and generation issued, answered
Rank(p) == CASE p = "idle" -> 0 [] p = "research" -> 1 [] p = "generate" -> 2
             [] p = "done" -> 3

\* the request waits for an external call
Waiting == pc \in {"research", "generate"}

\* C25: the pipeline is linear: every step of a request takes it to a later
\* stage (received and validated, research attempted or skipped, prompt
\* built and generation issued, posts filtered and answered), no stage is
\* entered twice, an answered request stays answered with the same response
\* until its handler is gone, and when every external call returns or fails
\* every request reaches its answer, the success envelope or an error.
C25_LinearPipeline ==
    /\ [][/\ pc # "done" => Rank(pc') > Rank(pc)
          /\ pc = "done" => pc' = "idle" /\ responses' = <<>>]_vars
    /\ [](pc = "done" => Len(responses) >= 1)
    /\ (Waiting ~> pc = "done")

\* a request that went through every stage, research included, is answered
\* with the success envelope
C25_Witness ==
    /\ pc = "done"
    /\ calls = <<"performWebResearch", "responses.create", "generateSocialMediaPosts",
                 "buildPrompt", "callOpenAI", "chat.completions.create">>
    /\ researchPromise = "fulfilled"
    /\ Len(responses) = 1 /\ IsSuccess(responses[1])
    /\ requests = MaxRequests

-----------------------------------------------------------------------------
(* Properties of buildPrompt *)

PromptBuilt == ret # NotCalled /\ "prompt" \in DOMAIN ret

\* the lines of a text, in order
Lines(s) ==
    LET breaks == {i \in 1..Len(s) : SubSeq(s, i, i) = "\n"}
        Nth(k) == IF k = 0 THEN 0
                  ELSE IF k > Cardinality(breaks) THEN Len(s) + 1
                  ELSE CHOOSE i \in breaks : Cardinality({j \in breaks : j < i}) = k - 1
    IN  [k \in 1..(Cardinality(breaks) + 1) |-> SubSeq(s, Nth(k - 1) + 1, Nth(k) - 1)]

\* the positions of the lines that start with `prefix`
LinesWith(lines, prefix) ==
    {i \in 1..Len(lines) : Len(lines[i]) >= Len(prefix)
                           /\ SubSeq(lines[i], 1, Len(prefix)) = prefix}

\* the lines that follow line `at` up to the next empty line
BlockAfter(lines, at) ==
    LET stop == MinOf({i \in (at + 1)..(Len(lines) + 1) :
                          i = Len(lines) + 1 \/ lines[i] = ""})
    IN  SubSeq(lines, at + 1, stop - 1)

GenerateInstruction == "Generate exactly one post for each platform: "

\* C26: buildPrompt yields the same string whenever it is given the same
\* product, tone, platforms and digest; under PLATFORM REQUIREMENTS the string
\* has one requirement line for every element of the platforms list, in the
\* order of the list, and further down the one instruction to generate
\* exactly one post for each platform, which lists the platforms in that order.
C26_PromptKeepsOrder ==
    PromptBuilt =>
        LET lines   == Lines(ret.prompt)
            headers == LinesWith(lines, "PLATFORM REQUIREMENTS:")
            instrs  == LinesWith(lines, GenerateInstruction)
            header  == CHOOSE i \in headers : TRUE
            instr   == CHOOSE i \in instrs : TRUE
            block   == BlockAfter(lines, header)
        IN  /\ ret.prompt = buildPrompt(arg.product, arg.tone, arg.platforms,
                                        arg.webResearch)
            /\ Cardinality(headers) = 1 /\ Cardinality(instrs) = 1
            /\ Len(block) = Len(arg.platforms)
            /\ \A i \in 1..Len(block) :
                   block[i] = "- " \o PLATFORM_GUIDELINES(arg.platforms[i])
            /\ Cardinality({i \in 1..Len(lines) :
                                \E k \in 1..Len(validPlatforms) :
                                    lines[i] = "- " \o PLATFORM_GUIDELINES(validPlatforms[k])})
                 = Len(arg.platforms)
            /\ instr > header + Len(block)
            /\ lines[instr] = GenerateInstruction \o Join(arg.platforms) \o "."

\* the prompt for linkedin, twitter, linkedin: three requirement lines in
\* that order, not the order of the table
C26_Witness ==
    /\ PromptBuilt
    /\ arg.platforms = <<"linkedin", "twitter", "linkedin">>
    /\ BlockAfter(Lines(ret.prompt), 12)
         = << "- " \o PLATFORM_GUIDELINES("linkedin"),
              "- " \o PLATFORM_GUIDELINES("twitter"),
              "- " \o PLATFORM_GUIDELINES("linkedin") >>

ResearchHeader == "WEB RESEARCH INSIGHTS (use these to make posts more relevant and timely):"

EnrichmentEmitted == LinesWith(Lines(ret.prompt), ResearchHeader) # {}
GuidelineEmitted == LinesWith(Lines(ret.prompt), "7. ") # {}

\* C27: the prompt has the enrichment block exactly when a digest is present
\* and holds at least one trending topic or hashtag, and it has the extra
\* guideline on trends and hashtags of the web research exactly when it has
\* the enrichment block: a digest that is present but empty adds neither.
C27_ResearchMaterial ==
    PromptBuilt =>
        /\ EnrichmentEmitted <=>
              /\ arg.webResearch # Undefined
              /\ arg.webResearch.trendingTopics # <<>>
                 \/ arg.webResearch.relevantHashtags # <<>>
        /\ GuidelineEmitted <=> EnrichmentEmitted

-----------------------------------------------------------------------------
(* Properties of parseResearchResponse *)

Parsed == ret # NotCalled /\ "digest" \in DOMAIN ret

NoDuplicates(list) ==
    \A i, j \in 1..Len(list) : list[i] = list[j] => i = j

\* the position of the first occurrence of x in seq
FirstIn(x, seq) == MinOf({i \in 1..Len(seq) : seq[i] = x})

\* list holds the distinct strings of the candidates in the order in which
\* each is first seen, cut after the first `limit` of them
FirstSeen(list, candidates, limit) ==
    LET distinct == {candidates[i] : i \in 1..Len(candidates)}
    IN  /\ Len(list) = (IF Cardinality(distinct) < limit THEN Cardinality(distinct)
                        ELSE limit)
        /\ NoDuplicates(list)
        /\ \A k \in 1..Len(list) : list[k] \in distinct
        /\ \A k \in 1..(Len(list) - 1) :
               FirstIn(list[k], candidates) < FirstIn(list[k + 1], candidates)
        /\ \A x \in distinct :
               (\E k \in 1..Len(list) : FirstIn(x, candidates) < FirstIn(list[k], candidates))
                   => InSeq(x, list)

\* C28: for every raw research text the digest has at most 10 hashtags, 5
\* trending topics and 5 competitor mentions, no list holds a string twice,
\* each list keeps the strings in the order they were first found (the
\* topics pattern by pattern, the others in the order of the text), and
\* marketInsights is the first 500 characters of the text, the whole text
\* when it is shorter.
C28_DigestBounded ==
    Parsed =>
        LET d == ret.digest
        IN  /\ Len(d.relevantHashtags) <= 10
            /\ Len(d.trendingTopics) <= 5
            /\ Len(d.competitorMentions) <= 5
            /\ FirstSeen(d.relevantHashtags, HashtagMatches(arg, 1), 10)
            /\ FirstSeen(d.trendingTopics, TopicMatches(arg), 5)
            /\ FirstSeen(d.competitorMentions, MentionMatches(arg), 5)
            /\ Len(d.marketInsights) = (IF Len(arg) < 500 THEN Len(arg) ELSE 500)
            /\ d.marketInsights = SubSeq(arg, 1, Len(d.marketInsights))

\* a text with twelve different hashtags, two of them repeated: the digest
\* keeps the first ten, once each
C28_Witness ==
    /\ Parsed
    /\ Len(HashtagMatches(arg, 1)) = 14
    /\ ret.digest.relevantHashtags
         = <<"#a1", "#a2", "#a3", "#a4", "#a5", "#a6", "#a7", "#a8", "#a9", "#a10">>

-----------------------------------------------------------------------------
(* Properties of the frontend's validation *)

FormChecked == ret # NotCalled /\ "server" \in DOMAIN ret

\* C29: every product for which the frontend's validateProduct returns no
\* errors is accepted by the backend's validateProduct, so that a submission
\* the form lets through does not come back as a 400 validation error.
C29_FormNoWeaker ==
    FormChecked => (ret.errors = <<>> => ret.server.valid)

-----------------------------------------------------------------------------
(* C30: the loading flag and the outcome of a request on the page *)

\* the page waits for a request
RequestInFlight == pageInFlight > 0

\* the click did not pass the client-side validation
ClickRejected == pageEvent'.type = "click" /\ pageEvent'.target = "invalid"

\* the request the page waited for has just failed
RequestFailed == pageEvent.type = "settled" /\ pageEvent.target = "failed"

\* C30: isLoading is true exactly while a request is in flight and false once
\* it has completed, however it ended; at most one request is in flight; a
\* click that fails the client-side validation sends no request and leaves
\* isLoading and posts as they were; after a failed request the list of posts
\* is empty and the error is set.
C30_LoadingAndFailure ==
    /\ [](pageIsLoading <=> RequestInFlight)
    /\ [](pageInFlight <= 1)
    /\ [][ClickRejected => UNCHANGED <<pageInFlight, pageIsLoading, pagePosts>>]_vars
    /\ [](RequestFailed => pagePosts = Arr(<<>>) /\ pageError # Null)

====
